---- MODULE Spec2Model ----
(***************************************************************************)
(* justapk: the Acquisition Orchestrator (justapk/downloader.py,           *)
(* APKDownloader) and the Version Resolver (_version_key,                  *)
(* _sort_versions_desc), as state machines.                                *)
(*                                                                         *)
(* Source adapters are external collaborators: every call to one either   *)
(* raises an Exception or returns a value, chosen nondeterministically     *)
(* from small sets.  The Package Assembler (convert_xapk_to_apk) is seen   *)
(* here from its caller: it raises, or writes one output file and returns  *)
(* its path.                                                               *)
(***************************************************************************)
EXTENDS Integers, Sequences, FiniteSets, TLC

VARIABLES
    source_names,       \* APKDownloader._source_names (priority order)
    source_instances,   \* keys of APKDownloader._source_instances
    auto_convert_xapk,  \* APKDownloader._auto_convert_xapk
    names0,             \* _source_names as set by __init__ (history)
    auto0,              \* _auto_convert_xapk as set by __init__ (history)
    pc,                 \* position of the call in progress
    call,               \* the call in progress: [op, source, version]
    idx,                \* loop position in the list built by _iter_sources
    errors,             \* download: errors; list[(name, str(e))]
    results,            \* search: results / list_all_versions: version_source
    seen_pkgs,          \* search: seen_pkgs
    ret,                \* value returned by the call
    exc,                \* exception raised by the call
    fs,                 \* files of the call's output directory: path -> content
    calls,              \* adapter methods invoked during the call (history)
    conv_calls,         \* convert_xapk_to_apk invocations during the call (history)
    dev_apps,           \* download_developer: apps
    version_map,        \* download_versions: version_source, as a list of items
    failed,             \* download_versions / download_developer: failed
    attempts,           \* downloads requested by the batch loop (history)
    vs_in,              \* Version Resolver: input of _sort_versions_desc
    vs_out,             \* Version Resolver: output of _sort_versions_desc
    xfer,               \* download_file: the transfer, its locals and its two files
    conv,               \* convert_xapk_to_apk: the conversion, its locals and files
    cls,                \* _classify_splits: arguments and result
    mrg                 \* _merge_splits: arguments and the archive written

vars == <<source_names, source_instances, auto_convert_xapk, names0, auto0,
          pc, call, idx, errors, results, seen_pkgs, ret, exc, fs, calls,
          conv_calls, dev_apps, version_map, failed, attempts, vs_in, vs_out,
          xfer, conv, cls, mrg>>

orch_vars == <<source_names, source_instances, auto_convert_xapk, names0, auto0,
               pc, call, idx, errors, results, seen_pkgs, ret, exc, fs, calls,
               conv_calls, dev_apps, version_map, failed, attempts>>

batch_vars == <<dev_apps, version_map, failed, attempts>>

ver_vars == <<vs_in, vs_out>>

\* what the orchestrator's operations never touch
side_vars == <<vs_in, vs_out, xfer, conv, cls, mrg>>

\* what a step of the Version Resolver, of download_file, of the conversion, of
\* the classification and of the merge leaves alone
but_ver == <<orch_vars, xfer, conv, cls, mrg>>

but_xfer == <<orch_vars, vs_in, vs_out, conv, cls, mrg>>

but_conv == <<orch_vars, vs_in, vs_out, xfer, cls, mrg>>

but_cls == <<orch_vars, vs_in, vs_out, xfer, conv, mrg>>

but_mrg == <<orch_vars, vs_in, vs_out, xfer, conv, cls>>

(***************************************************************************)
(* Bounds.                                                                 *)
(***************************************************************************)
\* how many adapters of the registry are modelled (a prefix of SOURCE_PRIORITY)
NumSources == 3

(***************************************************************************)
(* The registry and the priority list.                                     *)
(***************************************************************************)
AllSourceNames == <<"apk20", "fdroid", "apkpure", "apkmirror", "uptodown", "apkcombo">>

SOURCE_PRIORITY == SubSeq(AllSourceNames, 1, NumSources)

SOURCE_REGISTRY == {SOURCE_PRIORITY[k] : k \in 1..Len(SOURCE_PRIORITY)}

Range(s) == {s[k] : k \in 1..Len(s)}

\* [n for n in xs if n in SOURCE_REGISTRY]
RECURSIVE FilterRegistered(_)
FilterRegistered(xs) ==
    IF xs = <<>> THEN <<>>
    ELSE IF Head(xs) \in SOURCE_REGISTRY
         THEN <<Head(xs)>> \o FilterRegistered(Tail(xs))
         ELSE FilterRegistered(Tail(xs))

\* Optional values: <<>> is None, <<x>> is the value x
Nothing == <<>>

Some(x) == <<x>>

\* the `sources` arguments the constructor is given: None, the empty list, a
\* reordered subset, a list with an unregistered name, only unregistered names
SourcesArgs ==
    {Nothing, Some(<<>>), Some(<<"fdroid", "apk20">>), Some(<<"bogus", "fdroid">>),
     Some(<<"bogus">>)}

\* __init__: (sources or SOURCE_PRIORITY), filtered by the registry
InitSourceNames(sources) ==
    FilterRegistered(IF sources = Nothing \/ sources[1] = <<>>
                     THEN SOURCE_PRIORITY ELSE sources[1])

(***************************************************************************)
(* Values: exceptions, files, download records.                            *)
(***************************************************************************)
NoExc == [type |-> "none", msg |-> <<>>]

\* str(e)
Str(e) == e.msg

NoRet == [kind |-> "none"]

Package == "pkg"

\* versions a download can be pinned to, or an adapter resolves "latest" to
DlVersions == {"1.0", "2.0"}

\* suffixes of the files adapters deliver (apk20 keeps the server's spelling)
DlSuffixes == {".apk", ".xapk", ".APKS"}

\* a second package, as a developer's app list or a search names it
OtherPackage == "q"

Packages == {Package, OtherPackage}

\* file name stems: "{package}-{ver}", and the name a container's manifest gives
StemOf(package, ver) == <<package, ver>>

ManifestStem == <<"other", "9">>

Stems == {StemOf(p, v) : p \in Packages, v \in DlVersions} \cup {ManifestStem}

Paths == [stem : Stems, suffix : DlSuffixes]

Absent == [exists |-> FALSE, bytes |-> <<>>]

File(bytes) == [exists |-> TRUE, bytes |-> bytes]

EmptyDir == [p \in Paths |-> Absent]

\* bytes an adapter delivers, by container type, and bytes the Assembler writes
DeliveredBytes(suffix) == IF suffix = ".apk" THEN <<1>> ELSE <<2, 3>>

ConvertedBytes == <<4, 5, 6>>

\* path.stat().st_size
StatSize(dir, path) == Len(dir[path].bytes)

\* sha256_file(path): a digest is a function of the bytes read
sha256_file(dir, path) == <<"sha256", dir[path].bytes>>

\* str.lower() on the suffixes that occur
Lower(suffix) ==
    CASE suffix = ".APKS" -> ".apks"
      [] suffix = ".XAPK" -> ".xapk"
      [] suffix = ".APK" -> ".apk"
      [] OTHER -> suffix

\* Path.unlink(missing_ok=True)
Unlink(dir, path) == [dir EXCEPT ![path] = Absent]

(***************************************************************************)
(* The collaborators, as the orchestrator sees them.                       *)
(***************************************************************************)
\* messages of the exceptions an adapter raises
AdapterErrMsgs == {"not found", "HTTP 503"}

AdapterError(name, m) == [type |-> "RuntimeError", msg |-> <<name, m>>]

\* APKSource.download(package, output_dir, version): raises, or writes the file
\* and returns its DownloadResult
AdapterDownload(name, package, version, dir) ==
    {[ok |-> FALSE, err |-> AdapterError(name, m), dir |-> dir, result |-> NoRet]
        : m \in AdapterErrMsgs}
    \cup
    UNION {
      {LET path == [stem |-> StemOf(package, ver), suffix |-> sfx]
           dir1 == [dir EXCEPT ![path] = File(DeliveredBytes(sfx))]
       IN  [ok |-> TRUE, err |-> NoExc, dir |-> dir1,
            result |-> [kind |-> "DownloadResult", path |-> path,
                        package |-> package, version |-> ver, source |-> name,
                        size |-> StatSize(dir1, path),
                        sha256 |-> sha256_file(dir1, path)]]
        : sfx \in DlSuffixes}
      : ver \in (IF version = Nothing THEN DlVersions ELSE {version[1]})}

ConvErrMsgs == {"No APK files found in XAPK"}

\* convert_xapk_to_apk(xapk_path, xapk_path.parent): raises and leaves the
\* directory as it is, or writes "{package}-{version}.apk" and returns its path
convert_xapk_to_apk(xapk_path, dir) ==
    {[ok |-> FALSE, err |-> [type |-> "RuntimeError", msg |-> <<"xapk", m>>],
      dir |-> dir, path |-> xapk_path] : m \in ConvErrMsgs}
    \cup
    {LET out == [stem |-> s, suffix |-> ".apk"]
     IN  [ok |-> TRUE, err |-> NoExc, path |-> out,
          dir |-> [dir EXCEPT ![out] = File(ConvertedBytes)]]
        : s \in {xapk_path.stem, ManifestStem}}

(***************************************************************************)
(* APKDownloader helpers.                                                  *)
(***************************************************************************)
\* mutant: the name is looked up in the registry, not in the configured list
UnknownSource_registry(name) == name \notin SOURCE_REGISTRY

\* _get_source: `name not in self._source_names`
UnknownSource(name) == name \notin Range(source_names)

UnknownSourceError(name) ==
    [type |-> "ValueError", msg |-> <<"Unknown source", name, source_names>>]

\* mutant: every configured adapter is instantiated, whichever is asked for
_get_source_eager(instances, name) == instances \cup Range(source_names)

\* _get_source: instantiate lazily, one instance per name
_get_source(instances, name) == instances \cup {name}

\* _iter_sources: every configured adapter, in priority order, instantiated
_iter_sources(instances) == instances \cup Range(source_names)

\* `if source:`
Given(opt) == opt # Nothing /\ opt[1] # ""

\* one conversion's entry in the history of Assembler invocations
ConvCall(result, c) ==
    [src |-> result.source, path |-> result.path, ok |-> c.ok, err |-> c.err,
     out |-> c.path]

\* mutant: the container is left in place and the record keeps the adapter's
\* size and digest
_maybe_convert_xapk_stale(result, dir) ==
    IF ~auto_convert_xapk
    THEN {[ok |-> TRUE, err |-> NoExc, result |-> result, dir |-> dir, conv |-> <<>>]}
    ELSE IF Lower(result.path.suffix) \notin {".xapk", ".apks"}
    THEN {[ok |-> TRUE, err |-> NoExc, result |-> result, dir |-> dir, conv |-> <<>>]}
    ELSE {IF ~c.ok
          THEN [ok |-> FALSE, err |-> c.err, result |-> result, dir |-> c.dir,
                conv |-> <<ConvCall(result, c)>>]
          ELSE [ok |-> TRUE, err |-> NoExc,
                result |-> [result EXCEPT !.path = c.path],
                dir |-> c.dir, conv |-> <<ConvCall(result, c)>>]
            : c \in convert_xapk_to_apk(result.path, dir)}

\* mutant: the container is removed whether or not the conversion succeeded
_maybe_convert_xapk_cleanup(result, dir) ==
    IF ~auto_convert_xapk
    THEN {[ok |-> TRUE, err |-> NoExc, result |-> result, dir |-> dir, conv |-> <<>>]}
    ELSE IF Lower(result.path.suffix) \notin {".xapk", ".apks"}
    THEN {[ok |-> TRUE, err |-> NoExc, result |-> result, dir |-> dir, conv |-> <<>>]}
    ELSE {IF ~c.ok
          THEN [ok |-> FALSE, err |-> c.err, result |-> result,
                dir |-> Unlink(c.dir, result.path),
                conv |-> <<ConvCall(result, c)>>]
          ELSE [ok |-> TRUE, err |-> NoExc,
                result |-> [result EXCEPT !.path = c.path,
                               !.size = StatSize(Unlink(c.dir, result.path), c.path),
                               !.sha256 = sha256_file(Unlink(c.dir, result.path), c.path)],
                dir |-> Unlink(c.dir, result.path), conv |-> <<ConvCall(result, c)>>]
            : c \in convert_xapk_to_apk(result.path, dir)}

\* _maybe_convert_xapk(result): the outcomes, each with the directory it leaves
\* and the Assembler invocations it made
_maybe_convert_xapk(result, dir) ==
    IF ~auto_convert_xapk
    THEN {[ok |-> TRUE, err |-> NoExc, result |-> result, dir |-> dir, conv |-> <<>>]}
    ELSE IF Lower(result.path.suffix) \notin {".xapk", ".apks"}
    THEN {[ok |-> TRUE, err |-> NoExc, result |-> result, dir |-> dir, conv |-> <<>>]}
    ELSE {IF ~c.ok
          THEN [ok |-> FALSE, err |-> c.err, result |-> result, dir |-> c.dir,
                conv |-> <<ConvCall(result, c)>>]
          ELSE LET dir2 == Unlink(c.dir, result.path)
               IN  IF ~dir2[c.path].exists
                   THEN [ok |-> FALSE,
                         err |-> [type |-> "FileNotFoundError", msg |-> <<c.path.stem>>],
                         result |-> result, dir |-> dir2,
                         conv |-> <<ConvCall(result, c)>>]
                   ELSE [ok |-> TRUE, err |-> NoExc,
                         result |-> [result EXCEPT !.path = c.path,
                                        !.size = StatSize(dir2, c.path),
                                        !.sha256 = sha256_file(dir2, c.path)],
                         dir |-> dir2, conv |-> <<ConvCall(result, c)>>]
            : c \in convert_xapk_to_apk(result.path, dir)}

\* one adapter call's entry in the history of adapter invocations
AdapterCall(name, method, o) ==
    [src |-> name, method |-> method, ok |-> o.ok, err |-> o.err, out |-> o.result]

(***************************************************************************)
(* Calls: their arguments, and how one ends.                               *)
(***************************************************************************)
NoCall == [op |-> "none", source |-> Nothing, version |-> Nothing]

\* the `source` a call names: every registered adapter, and a name that is none
SourceChoices == SOURCE_REGISTRY \cup {"bogus"}

\* the `version` a download is given
VersionArgs == {Nothing} \cup {Some(v) : v \in DlVersions}

Return(v) == pc' = "returned" /\ ret' = v /\ exc' = NoExc

Raise(e) == pc' = "raised" /\ ret' = NoRet /\ exc' = e

\* a call starts with its own histories, in its own output directory
FreshCall(c) ==
    /\ pc = "idle"
    /\ call' = c
    /\ UNCHANGED <<source_names, auto_convert_xapk, names0, auto0, side_vars>>

(***************************************************************************)
(* APKDownloader.download                                                  *)
(***************************************************************************)
\* mutant: the list keeps only the latest failure
RecordFailure_latest(errs, name, e) == <<(<<name, Str(e)>>)>>

\* errors.append((name, str(e)))
RecordFailure(errs, name, e) == Append(errs, <<name, Str(e)>>)

\* RuntimeError(f"All sources failed for {package}: {error_summary}")
AllSourcesFailed(package, errs) ==
    [type |-> "RuntimeError", msg |-> <<"All sources failed for", package, errs>>]

\* result = src.download(package, output_dir, version)
\* return self._maybe_convert_xapk(result)
DownloadAttempt(name, package, version, dir) ==
    UNION {
        IF ~o.ok
        THEN {[ok |-> FALSE, err |-> o.err, result |-> NoRet, dir |-> o.dir,
               call |-> AdapterCall(name, "download", o), conv |-> <<>>]}
        ELSE {[ok |-> c.ok, err |-> c.err, result |-> c.result, dir |-> c.dir,
               call |-> AdapterCall(name, "download", o), conv |-> c.conv]
                : c \in _maybe_convert_xapk(o.result, o.dir)}
        : o \in AdapterDownload(name, package, version, dir)}

\* download(package, output_dir, source=<name>, version): lines 73-75
DownloadPinned ==
    \E source \in SourceChoices, version \in VersionArgs :
        /\ FreshCall([op |-> "download", source |-> Some(source), version |-> version])
        /\ Given(Some(source))
        /\ UNCHANGED <<idx, errors, results, seen_pkgs, batch_vars>>
        /\ IF UnknownSource(source)
           THEN /\ Raise(UnknownSourceError(source))
                /\ fs' = EmptyDir /\ calls' = <<>> /\ conv_calls' = <<>>
                /\ UNCHANGED source_instances
           ELSE /\ source_instances' = _get_source(source_instances, source)
                /\ \E a \in DownloadAttempt(source, Package, version, EmptyDir) :
                      /\ fs' = a.dir
                      /\ calls' = <<a.call>>
                      /\ conv_calls' = a.conv
                      /\ IF a.ok THEN Return(a.result) ELSE Raise(a.err)

\* download(package, output_dir, source=None, version): lines 77-80
DownloadBegin ==
    \E version \in VersionArgs :
        /\ FreshCall([op |-> "download", source |-> Nothing, version |-> version])
        /\ source_instances' = _iter_sources(source_instances)
        /\ pc' = "download" /\ idx' = 1 /\ errors' = <<>>
        /\ fs' = EmptyDir /\ calls' = <<>> /\ conv_calls' = <<>>
        /\ UNCHANGED <<results, seen_pkgs, ret, exc, batch_vars>>

\* one iteration of the fallback loop: lines 81-88
DownloadTry ==
    /\ pc = "download" /\ idx <= Len(source_names)
    /\ \E a \in DownloadAttempt(source_names[idx], Package, call.version, fs) :
          /\ fs' = a.dir
          /\ calls' = Append(calls, a.call)
          /\ conv_calls' = conv_calls \o a.conv
          /\ IF a.ok
             THEN Return(a.result) /\ UNCHANGED <<idx, errors>>
             ELSE /\ errors' = RecordFailure(errors, source_names[idx], a.err)
                  /\ idx' = idx + 1
                  /\ UNCHANGED <<pc, ret, exc>>
    /\ UNCHANGED <<source_names, source_instances, auto_convert_xapk, names0, auto0,
                   call, results, seen_pkgs, batch_vars, side_vars>>

\* the loop is exhausted: lines 90-91
DownloadAllFailed ==
    /\ pc = "download" /\ idx > Len(source_names)
    /\ Raise(AllSourcesFailed(Package, errors))
    /\ UNCHANGED <<source_names, source_instances, auto_convert_xapk, names0, auto0,
                   call, idx, errors, results, seen_pkgs, fs, calls, conv_calls,
                   batch_vars, side_vars>>

(***************************************************************************)
(* Adapter queries: search, get_info, list_versions, list_developer_apps.  *)
(***************************************************************************)
\* the exception a failing query raises
QueryError(name) == AdapterError(name, "HTTP 503")

\* AppInfo(package, name, version, source=...)
App(package, source, name) == [package |-> package, source |-> source, name |-> name]

\* the lists an adapter's search (or developer listing) returns; every adapter
\* sets source=self.name on what it lists: nothing, one app, two apps, the same
\* package twice
AppLists(n) ==
    {<<>>,
     <<App(Package, n, n)>>,
     <<App(Package, n, n), App(OtherPackage, n, n)>>,
     <<App(OtherPackage, n, n), App(OtherPackage, n, "alt"), App(Package, n, "alt")>>}

\* APKSource.search(query)
AdapterSearch(name) ==
    {[ok |-> FALSE, err |-> QueryError(name), result |-> NoRet]}
    \cup {[ok |-> TRUE, err |-> NoExc, result |-> [kind |-> "list", val |-> l]]
            : l \in AppLists(name)}

\* APKSource.get_info(package): AppInfo | None
AdapterGetInfo(name) ==
    {[ok |-> FALSE, err |-> QueryError(name), result |-> NoRet],
     [ok |-> TRUE, err |-> NoExc, result |-> [kind |-> "None"]],
     [ok |-> TRUE, err |-> NoExc,
      result |-> [kind |-> "AppInfo", val |-> App(Package, name, name)]]}

\* adapters that define list_developer_apps (fdroid and uptodown do not)
HasDeveloperApps(name) == name \notin {"fdroid", "uptodown"}

\* src.list_developer_apps(developer)
AdapterListDeveloperApps(name) ==
    IF ~HasDeveloperApps(name)
    THEN {[ok |-> FALSE, result |-> NoRet,
           err |-> [type |-> "AttributeError", msg |-> <<name, "list_developer_apps">>]]}
    ELSE {[ok |-> FALSE, err |-> QueryError(name), result |-> NoRet]}
         \cup {[ok |-> TRUE, err |-> NoExc, result |-> [kind |-> "list", val |-> l]]
                 : l \in AppLists(name)}

\* version strings, character by character
V2_9_9 == <<"2", ".", "9", ".", "9">>

V2_10_1 == <<"2", ".", "1", "0", ".", "1">>

V2_2 == <<"2", ".", "2">>

V2_02 == <<"2", ".", "0", "2">>

V2_2_b == <<"2", ".", "2", "-", "b">>

V2_2_1 == <<"2", ".", "2", ".", "1">>

V2_ == <<"2", ".">>

\* the date an adapter reports with a version ("" when it has none)
DateBy(name) ==
    CASE name = "apk20" -> "2024-01-01"
      [] name = "fdroid" -> ""
      [] name = "apkpure" -> "2024-03-03"
      [] OTHER -> "2024-04-04"

\* the (version, date) lists an adapter's list_versions returns
VersionLists(n) ==
    {<<>>,
     << <<V2_9_9, DateBy(n)>> >>,
     << <<V2_2, DateBy(n)>>, <<V2_10_1, "">>, <<V2_9_9, DateBy(n)>> >>,
     << <<V2_02, DateBy(n)>>, <<V2_2_b, DateBy(n)>>, <<V2_02, "2020-02-02">>,
        <<V2_2_1, "">> >>}

\* APKSource.list_versions(package)
AdapterListVersions(name) ==
    {[ok |-> FALSE, err |-> QueryError(name), result |-> NoRet]}
    \cup {[ok |-> TRUE, err |-> NoExc, result |-> [kind |-> "list", val |-> l]]
            : l \in VersionLists(name)}

\* a query call starts: nothing on disk is touched
FreshQuery(c) ==
    /\ FreshCall(c)
    /\ fs' = EmptyDir /\ conv_calls' = <<>>
    /\ errors' = <<>>
    /\ UNCHANGED batch_vars

\* a step of a query loop leaves these alone
QueryFrame ==
    UNCHANGED <<source_names, source_instances, auto_convert_xapk, names0, auto0,
                call, errors, fs, conv_calls, batch_vars, side_vars>>

(***************************************************************************)
(* APKDownloader.search                                                    *)
(***************************************************************************)
\* mutant: entries are deduplicated by package alone
RECURSIVE SearchMerge_byPackage(_, _)
SearchMerge_byPackage(acc, apps) ==
    IF apps = <<>> THEN acc
    ELSE LET app == Head(apps)
             key == <<app.package, "">>
         IN  IF key \notin acc.seen
             THEN SearchMerge_byPackage([seen |-> acc.seen \cup {key},
                                         results |-> Append(acc.results, app)],
                                        Tail(apps))
             ELSE SearchMerge_byPackage(acc, Tail(apps))

\* for app in src.search(query): key = (app.package, app.source); ...
RECURSIVE SearchMerge(_, _)
SearchMerge(acc, apps) ==
    IF apps = <<>> THEN acc
    ELSE LET app == Head(apps)
             key == <<app.package, app.source>>
         IN  IF key \notin acc.seen
             THEN SearchMerge([seen |-> acc.seen \cup {key},
                               results |-> Append(acc.results, app)],
                              Tail(apps))
             ELSE SearchMerge(acc, Tail(apps))

\* search(query, source=<name>): lines 270-271
SearchPinned ==
    \E source \in SourceChoices :
        /\ FreshQuery([op |-> "search", source |-> Some(source), version |-> Nothing])
        /\ Given(Some(source))
        /\ UNCHANGED <<idx, results, seen_pkgs>>
        /\ IF UnknownSource(source)
           THEN /\ Raise(UnknownSourceError(source))
                /\ calls' = <<>>
                /\ UNCHANGED source_instances
           ELSE /\ source_instances' = _get_source(source_instances, source)
                /\ \E o \in AdapterSearch(source) :
                      /\ calls' = <<AdapterCall(source, "search", o)>>
                      /\ IF o.ok THEN Return(o.result) ELSE Raise(o.err)

\* search(query): lines 273-275
SearchBegin ==
    /\ FreshQuery([op |-> "search", source |-> Nothing, version |-> Nothing])
    /\ source_instances' = _iter_sources(source_instances)
    /\ pc' = "search" /\ idx' = 1
    /\ results' = <<>> /\ seen_pkgs' = {} /\ calls' = <<>>
    /\ UNCHANGED <<ret, exc>>

\* one iteration of the search loop: lines 276-285
SearchTry ==
    /\ pc = "search" /\ idx <= Len(source_names)
    /\ \E o \in AdapterSearch(source_names[idx]) :
          /\ calls' = Append(calls, AdapterCall(source_names[idx], "search", o))
          /\ IF o.ok
             THEN LET acc == SearchMerge([seen |-> seen_pkgs, results |-> results],
                                         o.result.val)
                  IN  results' = acc.results /\ seen_pkgs' = acc.seen
             ELSE UNCHANGED <<results, seen_pkgs>>
    /\ idx' = idx + 1
    /\ UNCHANGED <<pc, ret, exc>>
    /\ QueryFrame

\* return results: line 286
SearchEnd ==
    /\ pc = "search" /\ idx > Len(source_names)
    /\ Return([kind |-> "list", val |-> results])
    /\ UNCHANGED <<idx, results, seen_pkgs, calls>>
    /\ QueryFrame

(***************************************************************************)
(* APKDownloader.info                                                      *)
(***************************************************************************)
\* mutant: whatever an adapter returns counts as a result
Truthy_any(result) == TRUE

\* `if result:` on AppInfo | None
Truthy(result) == result.kind # "None"

\* info(package, source=<name>): lines 289-290
InfoPinned ==
    \E source \in SourceChoices :
        /\ FreshQuery([op |-> "info", source |-> Some(source), version |-> Nothing])
        /\ Given(Some(source))
        /\ UNCHANGED <<idx, results, seen_pkgs>>
        /\ IF UnknownSource(source)
           THEN /\ Raise(UnknownSourceError(source))
                /\ calls' = <<>>
                /\ UNCHANGED source_instances
           ELSE /\ source_instances' = _get_source(source_instances, source)
                /\ \E o \in AdapterGetInfo(source) :
                      /\ calls' = <<AdapterCall(source, "get_info", o)>>
                      /\ IF o.ok THEN Return(o.result) ELSE Raise(o.err)

\* info(package): line 292
InfoBegin ==
    /\ FreshQuery([op |-> "info", source |-> Nothing, version |-> Nothing])
    /\ source_instances' = _iter_sources(source_instances)
    /\ pc' = "info" /\ idx' = 1 /\ calls' = <<>>
    /\ UNCHANGED <<results, seen_pkgs, ret, exc>>

\* one iteration of the probe loop: lines 293-300
InfoTry ==
    /\ pc = "info" /\ idx <= Len(source_names)
    /\ \E o \in AdapterGetInfo(source_names[idx]) :
          /\ calls' = Append(calls, AdapterCall(source_names[idx], "get_info", o))
          /\ IF o.ok /\ Truthy(o.result)
             THEN Return(o.result) /\ UNCHANGED idx
             ELSE idx' = idx + 1 /\ UNCHANGED <<pc, ret, exc>>
    /\ UNCHANGED <<results, seen_pkgs>>
    /\ QueryFrame

\* return None: line 301
InfoEnd ==
    /\ pc = "info" /\ idx > Len(source_names)
    /\ Return([kind |-> "None"])
    /\ UNCHANGED <<idx, results, seen_pkgs, calls>>
    /\ QueryFrame

(***************************************************************************)
(* Version Resolver: _version_key, _sort_versions_desc                     *)
(***************************************************************************)
\* re.split(r'[.\-_+]', version)
Separators == {".", "-", "_", "+"}

RECURSIVE SplitInto(_, _)
SplitInto(rest, token) ==
    IF rest = <<>> THEN <<token>>
    ELSE IF Head(rest) \in Separators
         THEN <<token>> \o SplitInto(Tail(rest), <<>>)
         ELSE SplitInto(Tail(rest), Append(token, Head(rest)))

Split(version) == SplitInto(version, <<>>)

Digits == {"0", "1", "2", "3", "4", "5", "6", "7", "8", "9"}

DigitVal(c) ==
    CASE c = "0" -> 0 [] c = "1" -> 1 [] c = "2" -> 2 [] c = "3" -> 3 [] c = "4" -> 4
      [] c = "5" -> 5 [] c = "6" -> 6 [] c = "7" -> 7 [] c = "8" -> 8 [] c = "9" -> 9

\* int(p) succeeds: a non-empty run of decimal digits
IsInt(token) == token # <<>> /\ \A i \in 1..Len(token) : token[i] \in Digits

\* int(p)
RECURSIVE IntVal(_)
IntVal(token) ==
    IF token = <<>> THEN 0
    ELSE 10 * IntVal(SubSeq(token, 1, Len(token) - 1)) + DigitVal(token[Len(token)])

\* ord(c) of the characters that occur in tokens
Ord(c) == IF c \in Digits THEN 48 + DigitVal(c) ELSE IF c = "a" THEN 97 ELSE 98

\* str < str
RECURSIVE StrLess(_, _)
StrLess(a, b) ==
    IF b = <<>> THEN FALSE
    ELSE IF a = <<>> THEN TRUE
    ELSE IF Ord(Head(a)) # Ord(Head(b)) THEN Ord(Head(a)) < Ord(Head(b))
    ELSE StrLess(Tail(a), Tail(b))

\* mutant: every token is kept as a string
_version_key_text(version) ==
    LET parts == Split(version)
    IN  [i \in 1..Len(parts) |-> [tag |-> 1, int |-> 0, str |-> parts[i]]]

\* _version_key: (0, int(p)) for an integer token, (1, p) otherwise
_version_key(version) ==
    LET parts == Split(version)
    IN  [i \in 1..Len(parts) |->
            IF IsInt(parts[i])
            THEN [tag |-> 0, int |-> IntVal(parts[i]), str |-> <<>>]
            ELSE [tag |-> 1, int |-> 0, str |-> parts[i]]]

\* (tag, value) < (tag, value)
ElemLess(x, y) ==
    \/ x.tag < y.tag
    \/ x.tag = y.tag /\ x.tag = 0 /\ x.int < y.int
    \/ x.tag = y.tag /\ x.tag = 1 /\ StrLess(x.str, y.str)

\* tuple < tuple
RECURSIVE KeyLess(_, _)
KeyLess(k1, k2) ==
    IF k2 = <<>> THEN FALSE
    ELSE IF k1 = <<>> THEN TRUE
    ELSE IF ElemLess(Head(k1), Head(k2)) THEN TRUE
    ELSE IF ElemLess(Head(k2), Head(k1)) THEN FALSE
    ELSE KeyLess(Tail(k1), Tail(k2))

\* sorted(..., reverse=True) is stable: an item goes before the first item
\* whose key is smaller than its own
RECURSIVE InsertDesc(_, _)
InsertDesc(sorted, ver) ==
    IF sorted = <<>> THEN <<ver>>
    ELSE IF KeyLess(_version_key(Head(sorted)), _version_key(ver))
         THEN <<ver>> \o sorted
         ELSE <<Head(sorted)>> \o InsertDesc(Tail(sorted), ver)

\* sorted(version_source.keys(), key=_version_key, reverse=True)
RECURSIVE SortedDesc(_)
SortedDesc(keys) ==
    IF keys = <<>> THEN <<>>
    ELSE InsertDesc(SortedDesc(SubSeq(keys, 1, Len(keys) - 1)), keys[Len(keys)])

\* version_source[k]
Lookup(version_source, ver) ==
    LET i == CHOOSE i \in 1..Len(version_source) : version_source[i].ver = ver
    IN  version_source[i]

\* _sort_versions_desc: {k: version_source[k] for k in sorted_keys}
_sort_versions_desc(version_source) ==
    LET sorted_keys ==
            SortedDesc([i \in 1..Len(version_source) |-> version_source[i].ver])
    IN  [i \in 1..Len(sorted_keys) |-> Lookup(version_source, sorted_keys[i])]

(***************************************************************************)
(* APKDownloader.list_all_versions                                         *)
(***************************************************************************)
HasVersion(version_source, ver) ==
    \E i \in 1..Len(version_source) : version_source[i].ver = ver

\* mutant: a later report of a version replaces the recorded one
RECURSIVE VersionsMerge_lastWins(_, _, _)
VersionsMerge_lastWins(version_source, name, pairs) ==
    IF pairs = <<>> THEN version_source
    ELSE LET v == Head(pairs)[1]
             entry == [ver |-> v, src |-> name, date |-> Head(pairs)[2]]
         IN  VersionsMerge_lastWins(
                 IF HasVersion(version_source, v)
                 THEN [i \in 1..Len(version_source) |->
                          IF version_source[i].ver = v THEN entry
                          ELSE version_source[i]]
                 ELSE Append(version_source, entry),
                 name, Tail(pairs))

\* for v, date in src.list_versions(package):
\*     if v not in version_source: version_source[v] = (name, date)
RECURSIVE VersionsMerge(_, _, _)
VersionsMerge(version_source, name, pairs) ==
    IF pairs = <<>> THEN version_source
    ELSE LET v == Head(pairs)[1]
             entry == [ver |-> v, src |-> name, date |-> Head(pairs)[2]]
         IN  VersionsMerge(
                 IF HasVersion(version_source, v) THEN version_source
                 ELSE Append(version_source, entry),
                 name, Tail(pairs))

NoVersionsFound(package) ==
    [type |-> "RuntimeError", msg |-> <<"No versions found for", package>>]

\* lines 122-129: fail on an empty mapping, else sort and return
VersionsOutcome(version_source) ==
    IF version_source = <<>>
    THEN Raise(NoVersionsFound(Package))
    ELSE Return([kind |-> "dict", val |-> _sort_versions_desc(version_source)])

\* list_all_versions(package, source=<name>): lines 102-110, 122-129
VersionsPinned ==
    \E source \in SourceChoices :
        /\ FreshQuery([op |-> "list_all_versions", source |-> Some(source),
                       version |-> Nothing])
        /\ Given(Some(source))
        /\ UNCHANGED <<idx, seen_pkgs>>
        /\ IF UnknownSource(source)
           THEN /\ Raise(UnknownSourceError(source))
                /\ calls' = <<>> /\ results' = <<>>
                /\ UNCHANGED source_instances
           ELSE /\ source_instances' = _get_source(source_instances, source)
                /\ \E o \in AdapterListVersions(source) :
                      /\ calls' = <<AdapterCall(source, "list_versions", o)>>
                      /\ IF o.ok
                         THEN /\ results' = VersionsMerge(<<>>, source, o.result.val)
                              /\ VersionsOutcome(results')
                         ELSE results' = <<>> /\ Raise(o.err)

\* list_all_versions(package): lines 102-104, 112
VersionsBegin ==
    /\ FreshQuery([op |-> "list_all_versions", source |-> Nothing, version |-> Nothing])
    /\ source_instances' = _iter_sources(source_instances)
    /\ pc' = "list_all_versions" /\ idx' = 1
    /\ results' = <<>> /\ calls' = <<>>
    /\ UNCHANGED <<seen_pkgs, ret, exc>>

\* one iteration of the loop: lines 113-120
VersionsTry ==
    /\ pc = "list_all_versions" /\ idx <= Len(source_names)
    /\ \E o \in AdapterListVersions(source_names[idx]) :
          /\ calls' = Append(calls, AdapterCall(source_names[idx], "list_versions", o))
          /\ results' = IF o.ok
                        THEN VersionsMerge(results, source_names[idx], o.result.val)
                        ELSE results
    /\ idx' = idx + 1
    /\ UNCHANGED <<pc, ret, exc, seen_pkgs>>
    /\ QueryFrame

\* after the loop: lines 122-129
VersionsEnd ==
    /\ pc = "list_all_versions" /\ idx > Len(source_names)
    /\ VersionsOutcome(results)
    /\ UNCHANGED <<idx, results, seen_pkgs, calls>>
    /\ QueryFrame

(***************************************************************************)
(* APKDownloader.developer_apps                                            *)
(***************************************************************************)
\* mutant: entries are deduplicated by (package, source), as search does
RECURSIVE DeveloperMerge_byPair(_, _)
DeveloperMerge_byPair(acc, listed) ==
    IF listed = <<>> THEN acc
    ELSE LET app == Head(listed)
             key == <<app.package, app.source>>
         IN  IF key \notin acc.seen
             THEN DeveloperMerge_byPair([seen |-> acc.seen \cup {key},
                                         results |-> Append(acc.results, app)],
                                        Tail(listed))
             ELSE DeveloperMerge_byPair(acc, Tail(listed))

\* for app in src.list_developer_apps(developer):
\*     if app.package not in seen_pkgs: seen_pkgs.add(...); results.append(app)
RECURSIVE DeveloperMerge(_, _)
DeveloperMerge(acc, listed) ==
    IF listed = <<>> THEN acc
    ELSE LET app == Head(listed)
         IN  IF app.package \notin acc.seen
             THEN DeveloperMerge([seen |-> acc.seen \cup {app.package},
                                  results |-> Append(acc.results, app)],
                                 Tail(listed))
             ELSE DeveloperMerge(acc, Tail(listed))

\* developer_apps(developer, source=<name>): lines 204-207
DeveloperAppsPinned ==
    \E source \in SourceChoices :
        /\ FreshQuery([op |-> "developer_apps", source |-> Some(source),
                       version |-> Nothing])
        /\ Given(Some(source))
        /\ UNCHANGED <<idx, results, seen_pkgs>>
        /\ IF UnknownSource(source)
           THEN /\ Raise(UnknownSourceError(source))
                /\ calls' = <<>>
                /\ UNCHANGED source_instances
           ELSE /\ source_instances' = _get_source(source_instances, source)
                /\ \E o \in AdapterListDeveloperApps(source) :
                      /\ calls' = <<AdapterCall(source, "list_developer_apps", o)>>
                      /\ IF o.ok THEN Return(o.result) ELSE Raise(o.err)

\* the aggregate listing starts: lines 209-211
DeveloperListingStart ==
    /\ source_instances' = _iter_sources(source_instances)
    /\ pc' = "developer_apps" /\ idx' = 1
    /\ results' = <<>> /\ seen_pkgs' = {} /\ calls' = <<>>
    /\ UNCHANGED <<ret, exc>>

\* developer_apps(developer)
DeveloperAppsBegin ==
    /\ FreshQuery([op |-> "developer_apps", source |-> Nothing, version |-> Nothing])
    /\ DeveloperListingStart

\* one iteration of the loop: lines 212-220
DeveloperAppsTry ==
    /\ pc = "developer_apps" /\ idx <= Len(source_names)
    /\ \E o \in AdapterListDeveloperApps(source_names[idx]) :
          /\ calls' = Append(calls,
                             AdapterCall(source_names[idx], "list_developer_apps", o))
          /\ LET acc == IF o.ok
                        THEN DeveloperMerge([seen |-> seen_pkgs, results |-> results],
                                            o.result.val)
                        ELSE [seen |-> seen_pkgs, results |-> results]
             IN  results' = acc.results /\ seen_pkgs' = acc.seen
    /\ idx' = idx + 1
    /\ UNCHANGED <<pc, ret, exc>>
    /\ QueryFrame

\* return results: line 221
DeveloperAppsEnd ==
    /\ pc = "developer_apps" /\ idx > Len(source_names)
    /\ call.op = "developer_apps"
    /\ Return([kind |-> "list", val |-> results])
    /\ UNCHANGED <<idx, results, seen_pkgs, calls>>
    /\ QueryFrame

(***************************************************************************)
(* self.download(...) as the batch operations call it: its outcomes, each  *)
(* with the directory it leaves and the invocations it made.               *)
(***************************************************************************)
\* lines 77-91
RECURSIVE DownloadFallbackFrom(_, _, _, _, _)
DownloadFallbackFrom(i, package, version, dir, errs) ==
    IF i > Len(source_names)
    THEN {[ok |-> FALSE, err |-> AllSourcesFailed(package, errs), result |-> NoRet,
           dir |-> dir, calls |-> <<>>, conv |-> <<>>]}
    ELSE UNION {
            IF a.ok
            THEN {[ok |-> TRUE, err |-> NoExc, result |-> a.result, dir |-> a.dir,
                   calls |-> <<a.call>>, conv |-> a.conv]}
            ELSE {[r EXCEPT !.calls = <<a.call>> \o @, !.conv = a.conv \o @]
                    : r \in DownloadFallbackFrom(
                                i + 1, package, version, a.dir,
                                RecordFailure(errs, source_names[i], a.err))}
            : a \in DownloadAttempt(source_names[i], package, version, dir)}

\* mutant: the requested source is ignored and every adapter is tried in turn
download_unpinned(package, source, version, dir) ==
    DownloadFallbackFrom(1, package, version, dir, <<>>)

\* lines 63-91
download(package, source, version, dir) ==
    IF Given(source)
    THEN IF UnknownSource(source[1])
         THEN {[ok |-> FALSE, err |-> UnknownSourceError(source[1]), result |-> NoRet,
                dir |-> dir, calls |-> <<>>, conv |-> <<>>]}
         ELSE {[ok |-> a.ok, err |-> a.err, result |-> a.result, dir |-> a.dir,
                calls |-> <<a.call>>, conv |-> a.conv]
                 : a \in DownloadAttempt(source[1], package, version, dir)}
    ELSE DownloadFallbackFrom(1, package, version, dir, <<>>)

\* the adapters a download leaves instantiated
InstancesAfterDownload(instances, source) ==
    IF ~Given(source) THEN _iter_sources(instances)
    ELSE IF UnknownSource(source[1]) THEN instances
    ELSE _get_source(instances, source[1])

\* one download requested by a batch loop, in the history
Attempt(package, source, version, r) ==
    [package |-> package, source |-> source, version |-> version, ok |-> r.ok]

\* one iteration of a batch loop: try: result = self.download(...);
\* results.append(result) / except Exception: failed += 1
BatchDownload(package, source, version) ==
    /\ \E r \in download(package, source, version, fs) :
          /\ fs' = r.dir
          /\ calls' = calls \o r.calls
          /\ conv_calls' = conv_calls \o r.conv
          /\ attempts' = Append(attempts, Attempt(package, source, version, r))
          /\ results' = IF r.ok THEN Append(results, r.result) ELSE results
          /\ failed' = IF r.ok THEN failed ELSE failed + 1
    /\ source_instances' = InstancesAfterDownload(source_instances, source)
    /\ idx' = idx + 1
    /\ UNCHANGED <<source_names, auto_convert_xapk, names0, auto0, pc, call, errors,
                   seen_pkgs, ret, exc, dev_apps, version_map, side_vars>>

\* mutant: an empty batch result is returned like any other
BatchOutcome_lenient(msg) ==
    /\ Return([kind |-> "list", val |-> results])
    /\ UNCHANGED <<source_names, source_instances, auto_convert_xapk, names0, auto0,
                   call, idx, errors, results, seen_pkgs, fs, calls, conv_calls,
                   batch_vars, side_vars>>

\* the end of a batch loop: `if not results: raise RuntimeError(...)`
BatchOutcome(msg) ==
    /\ IF results = <<>>
       THEN Raise([type |-> "RuntimeError", msg |-> msg])
       ELSE Return([kind |-> "list", val |-> results])
    /\ UNCHANGED <<source_names, source_instances, auto_convert_xapk, names0, auto0,
                   call, idx, errors, results, seen_pkgs, fs, calls, conv_calls,
                   batch_vars, side_vars>>

(***************************************************************************)
(* APKDownloader.download_versions                                         *)
(***************************************************************************)
VersionItem(ver, src, date) == [ver |-> ver, src |-> src, date |-> date]

\* the {version: (source_name, date)} mappings a caller passes, as item lists
VersionSourceArgs ==
    {<<>>,
     <<VersionItem("1.0", "fdroid", "")>>,
     <<VersionItem("2.0", "apk20", "2024-01-01"), VersionItem("1.0", "fdroid", "")>>,
     <<VersionItem("2.0", "bogus", ""), VersionItem("1.0", "apk20", "2024-01-01")>>}

\* download_versions(package, version_source, output_dir): lines 138-144
DownloadVersionsBegin ==
    \E vs \in VersionSourceArgs :
        /\ FreshCall([op |-> "download_versions", source |-> Nothing,
                      version |-> Nothing])
        /\ version_map' = vs
        /\ pc' = "download_versions" /\ idx' = 1
        /\ results' = <<>> /\ failed' = 0 /\ attempts' = <<>>
        /\ fs' = EmptyDir /\ calls' = <<>> /\ conv_calls' = <<>> /\ errors' = <<>>
        /\ UNCHANGED <<source_instances, seen_pkgs, ret, exc, dev_apps>>

\* one iteration of the loop: lines 146-154
DownloadVersionsTry ==
    /\ pc = "download_versions" /\ idx <= Len(version_map)
    /\ LET item == version_map[idx]
       IN  BatchDownload(Package, Some(item.src), Some(item.ver))

\* after the loop: lines 156-167
DownloadVersionsEnd ==
    /\ pc = "download_versions" /\ idx > Len(version_map)
    /\ BatchOutcome(<<"Failed to download any version of", Package>>)

(***************************************************************************)
(* APKDownloader.download_developer                                        *)
(***************************************************************************)
Developer == "dev"

NoAppsFound == [type |-> "RuntimeError", msg |-> <<"No apps found for developer", Developer>>]

\* the download loop starts over the listed apps: lines 238-243
DeveloperDownloadStart(listed) ==
    /\ dev_apps' = listed
    /\ pc' = "download_developer" /\ idx' = 1
    /\ results' = <<>> /\ failed' = 0 /\ attempts' = <<>>
    /\ UNCHANGED <<ret, exc>>

\* download_developer(developer, output_dir, source=<name>): lines 230-243, with
\* developer_apps' lines 204-207
DeveloperDownloadPinned ==
    \E source \in SourceChoices :
        /\ FreshCall([op |-> "download_developer", source |-> Some(source),
                      version |-> Nothing])
        /\ Given(Some(source))
        /\ fs' = EmptyDir /\ conv_calls' = <<>> /\ errors' = <<>>
        /\ UNCHANGED <<seen_pkgs, version_map>>
        /\ IF UnknownSource(source)
           THEN /\ Raise(UnknownSourceError(source))
                /\ calls' = <<>>
                /\ UNCHANGED <<source_instances, idx, results, dev_apps, failed, attempts>>
           ELSE /\ source_instances' = _get_source(source_instances, source)
                /\ \E o \in AdapterListDeveloperApps(source) :
                      /\ calls' = <<AdapterCall(source, "list_developer_apps", o)>>
                      /\ IF ~o.ok
                         THEN /\ Raise(o.err)
                              /\ UNCHANGED <<idx, results, dev_apps, failed, attempts>>
                         ELSE IF o.result.val = <<>>
                         THEN /\ Raise(NoAppsFound)
                              /\ UNCHANGED <<idx, results, dev_apps, failed, attempts>>
                         ELSE DeveloperDownloadStart(o.result.val)

\* download_developer(developer, output_dir): lines 230-234, entering
\* developer_apps
DeveloperDownloadBegin ==
    /\ FreshQuery([op |-> "download_developer", source |-> Nothing,
                   version |-> Nothing])
    /\ DeveloperListingStart

\* developer_apps has returned to download_developer: lines 234-243
DeveloperDownloadListed ==
    /\ pc = "developer_apps" /\ idx > Len(source_names)
    /\ call.op = "download_developer"
    /\ IF results = <<>>
       THEN /\ Raise(NoAppsFound)
            /\ UNCHANGED <<idx, results, batch_vars>>
       ELSE /\ DeveloperDownloadStart(results)
            /\ UNCHANGED version_map
    /\ UNCHANGED <<source_names, source_instances, auto_convert_xapk, names0, auto0,
                   call, errors, seen_pkgs, fs, calls, conv_calls, side_vars>>

\* mutant: the requested source is passed on, whatever the app carries
SourceFor_requested(app, source) == source

\* `source=app.source or source`
SourceFor(app, source) == IF app.source # "" THEN Some(app.source) ELSE source

\* one iteration of the loop: lines 244-254
DeveloperDownloadTry ==
    /\ pc = "download_developer" /\ idx <= Len(dev_apps)
    /\ LET app == dev_apps[idx]
       IN  BatchDownload(app.package, SourceFor(app, call.source), Nothing)

\* after the loop: lines 256-267
DeveloperDownloadEnd ==
    /\ pc = "download_developer" /\ idx > Len(dev_apps)
    /\ BatchOutcome(<<"Failed to download any app for developer", Developer>>)

(***************************************************************************)
(* The caller takes the outcome; the downloader is ready for the next call. *)
(***************************************************************************)
Finish ==
    /\ pc \in {"returned", "raised"}
    /\ pc' = "idle" /\ call' = NoCall /\ idx' = 0
    /\ errors' = <<>> /\ results' = <<>> /\ seen_pkgs' = {}
    /\ ret' = NoRet /\ exc' = NoExc
    /\ fs' = EmptyDir /\ calls' = <<>> /\ conv_calls' = <<>>
    /\ dev_apps' = <<>> /\ version_map' = <<>> /\ failed' = 0 /\ attempts' = <<>>
    /\ UNCHANGED <<source_names, source_instances, auto_convert_xapk, names0, auto0,
                   side_vars>>

\* nothing has been converted, classified or merged yet
NoConversion ==
    [pc |-> "idle", xapk |-> [stem |-> <<>>, entries |-> <<>>], checked |-> 0,
     extracted |-> 0, tmp |-> <<>>, wrote |-> {}, package |-> <<>>, version |-> <<>>,
     apks |-> <<>>, out_name |-> <<>>, base_apk |-> <<>>, config_apks |-> <<>>,
     merged |-> [entries |-> <<>>],
     signing |-> [signed |-> FALSE, keytool |-> 0, apksigner |-> 0, jarsigner |-> 0,
                  ks |-> FALSE],
     env |-> [apksigner |-> FALSE, jarsigner |-> FALSE, keytool |-> FALSE,
              keygen |-> <<"notfound", "notfound">>, apksigner_run |-> "notfound",
              jarsigner_run |-> "notfound"],
     warned |-> FALSE, steps |-> <<>>,
     out |-> [exists |-> FALSE, name |-> <<>>,
              bytes |-> [stem |-> <<>>, size |-> 0, entries |-> <<>>],
              merged |-> FALSE, signed |-> FALSE],
     ret |-> <<>>, exc |-> "none"]

NoClassify == [pc |-> "idle", apks |-> <<>>, package |-> <<>>,
               base_apk |-> 0, config_apks |-> <<>>]

NoMerge == [pc |-> "idle", base_apk |-> <<>>, config_apks |-> <<>>, files |-> <<>>,
            added |-> 0, k |-> 0, output |-> [entries |-> <<>>]]

\* a default orchestrator on which no call is in progress
OrchestratorIdle ==
    /\ source_names = SOURCE_PRIORITY /\ names0 = SOURCE_PRIORITY
    /\ source_instances = {}
    /\ auto_convert_xapk = TRUE /\ auto0 = TRUE
    /\ pc = "idle" /\ call = NoCall /\ idx = 0
    /\ errors = <<>> /\ results = <<>> /\ seen_pkgs = {}
    /\ ret = NoRet /\ exc = NoExc
    /\ fs = EmptyDir /\ calls = <<>> /\ conv_calls = <<>>
    /\ dev_apps = <<>> /\ version_map = <<>> /\ failed = 0 /\ attempts = <<>>

(***************************************************************************)
(* utils.download_file                                                     *)
(***************************************************************************)
\* the largest content-length a response declares (0: none declared)
MaxTotal == 2

\* how many chunks a stream delivers at most
MaxChunks == 3

\* how many transfers to the same path follow each other
MaxTransfers == 2

\* len(chunk)
ChunkSizes == {1, 2}

\* a file of the download directory: which transfer wrote it, and how many bytes
NoFile == [exists |-> FALSE, by |-> 0, size |-> 0]

NewFile(n) == [exists |-> TRUE, by |-> n, size |-> 0]

\* f.write(chunk)
Written(file, n) == [file EXCEPT !.size = @ + n]

NoTransfer ==
    [pc |-> "idle", n |-> 0, total |-> 0, downloaded |-> 0, chunks |-> <<>>,
     path |-> NoFile, part_path |-> NoFile, path0 |-> NoFile,
     ret |-> -1, exc |-> "none"]

\* mutant: the handler leaves the temporary file where it is
Cleanup_keep(part) == part

\* part_path.unlink(missing_ok=True)
Cleanup(part) == NoFile

\* mutant: a short stream is accepted
Incomplete_never(total, downloaded) == FALSE

\* mutant: only a stream of exactly the declared length is accepted
Incomplete_exact(total, downloaded) == downloaded # total

\* `total > 0 and downloaded < total`
Incomplete(total, downloaded) == total > 0 /\ downloaded < total

\* the exception leaves download_file
DlRaise(x, e) == [x EXCEPT !.pc = "raised", !.exc = e]

\* `except BaseException: part_path.unlink(missing_ok=True); raise`
DlHandler(x, e) == DlRaise([x EXCEPT !.part_path = Cleanup(@)], e)

\* session.get(...), resp.raise_for_status(), total = int(content-length):
\* lines 118-120
DlRequest ==
    /\ xfer.pc \in {"idle", "returned", "raised"}
    /\ xfer.n < MaxTransfers
    /\ LET x == [xfer EXCEPT !.n = @ + 1, !.downloaded = 0, !.chunks = <<>>,
                             !.path0 = xfer.path, !.ret = -1, !.exc = "none",
                             !.total = 0]
       IN  \/ \E e \in {"ConnectionError", "HTTPError"} : xfer' = DlRaise(x, e)
           \/ \E total \in 0..MaxTotal :
                 xfer' = [x EXCEPT !.pc = "open", !.total = total]
    /\ UNCHANGED but_xfer

\* part_path.parent.mkdir(...), then, inside the try, open(part_path, "wb"):
\* lines 124-128
DlOpen ==
    /\ xfer.pc = "open"
    /\ \/ xfer' = DlRaise(xfer, "OSError")
       \/ xfer' = DlHandler(xfer, "OSError")
       \/ xfer' = [xfer EXCEPT !.pc = "streaming", !.part_path = NewFile(xfer.n)]
    /\ UNCHANGED but_xfer

\* one iteration of `for chunk in resp.iter_content(chunk_size)`: lines 129-132
DlChunk ==
    /\ xfer.pc = "streaming"
    /\ Len(xfer.chunks) < MaxChunks
    /\ \E n \in ChunkSizes :
          xfer' = [xfer EXCEPT !.part_path = Written(@, n),
                               !.downloaded = @ + n,
                               !.chunks = Append(@, n)]
    /\ UNCHANGED but_xfer

\* the stream or the write raises, or the user interrupts: lines 143-145
DlStreamError ==
    /\ xfer.pc = "streaming"
    /\ \E e \in {"ConnectionError", "OSError", "KeyboardInterrupt"} :
          xfer' = DlHandler(xfer, e)
    /\ UNCHANGED but_xfer

\* the stream ends: lines 134-140
DlStreamEnd ==
    /\ xfer.pc = "streaming"
    /\ IF Incomplete(xfer.total, xfer.downloaded)
       THEN xfer' = DlHandler([xfer EXCEPT !.part_path = NoFile], "Incomplete download")
       ELSE xfer' = [xfer EXCEPT !.pc = "rename"]
    /\ UNCHANGED but_xfer

\* part_path.rename(path), return downloaded: lines 142-147
DlRename ==
    /\ xfer.pc = "rename"
    /\ \/ \E e \in {"OSError", "KeyboardInterrupt"} : xfer' = DlHandler(xfer, e)
       \/ xfer' = [xfer EXCEPT !.pc = "returned", !.path = xfer.part_path,
                               !.part_path = NoFile, !.ret = xfer.downloaded]
    /\ UNCHANGED but_xfer

InitDl ==
    /\ OrchestratorIdle
    /\ vs_in = <<>> /\ vs_out = <<>>
    /\ xfer = NoTransfer
    /\ conv = NoConversion /\ cls = NoClassify /\ mrg = NoMerge

NextDl ==
    \/ DlRequest
    \/ DlOpen
    \/ DlChunk
    \/ DlStreamError
    \/ DlStreamEnd
    \/ DlRename

SpecDl == InitDl /\ [][NextDl]_vars

(***************************************************************************)
(* The orchestrator's specification.                                       *)
(***************************************************************************)
Init ==
    \E sources \in SourcesArgs, auto \in BOOLEAN :
        /\ source_names = InitSourceNames(sources)
        /\ names0 = InitSourceNames(sources)
        /\ source_instances = {}
        /\ auto_convert_xapk = auto
        /\ auto0 = auto
        /\ pc = "idle" /\ call = NoCall /\ idx = 0
        /\ errors = <<>> /\ results = <<>> /\ seen_pkgs = {}
        /\ ret = NoRet /\ exc = NoExc
        /\ fs = EmptyDir /\ calls = <<>> /\ conv_calls = <<>>
        /\ dev_apps = <<>> /\ version_map = <<>> /\ failed = 0 /\ attempts = <<>>
        /\ vs_in = <<>> /\ vs_out = <<>>
        /\ xfer = NoTransfer
        /\ conv = NoConversion /\ cls = NoClassify /\ mrg = NoMerge

Next ==
    \/ DownloadPinned
    \/ DownloadBegin
    \/ DownloadTry
    \/ DownloadAllFailed
    \/ SearchPinned
    \/ SearchBegin
    \/ SearchTry
    \/ SearchEnd
    \/ InfoPinned
    \/ InfoBegin
    \/ InfoTry
    \/ InfoEnd
    \/ VersionsPinned
    \/ VersionsBegin
    \/ VersionsTry
    \/ VersionsEnd
    \/ DeveloperAppsPinned
    \/ DeveloperAppsBegin
    \/ DeveloperAppsTry
    \/ DeveloperAppsEnd
    \/ DownloadVersionsBegin
    \/ DownloadVersionsTry
    \/ DownloadVersionsEnd
    \/ DeveloperDownloadPinned
    \/ DeveloperDownloadBegin
    \/ DeveloperDownloadListed
    \/ DeveloperDownloadTry
    \/ DeveloperDownloadEnd
    \/ Finish

Spec == Init /\ [][Next]_vars

(***************************************************************************)
(* The Version Resolver on its own: _sort_versions_desc applied to the     *)
(* mappings list_all_versions can have collected.                          *)
(***************************************************************************)
\* how many versions a mapping holds
MaxVersions == 3

VersionPool == {V2_9_9, V2_10_1, V2_2, V2_02, V2_2_b, V2_2_1, V2_}

\* a dict has each key once
VersionSequences ==
    {vs \in UNION {[1..n -> VersionPool] : n \in 1..MaxVersions} :
        \A i, j \in 1..Len(vs) : vs[i] = vs[j] => i = j}

VersionSources ==
    {[i \in 1..Len(vs) |-> [ver |-> vs[i], src |-> "apk20", date |-> DateBy("apk20")]]
        : vs \in VersionSequences}

InitVer ==
    /\ OrchestratorIdle
    /\ vs_in \in VersionSources
    /\ vs_out = <<>>
    /\ xfer = NoTransfer
    /\ conv = NoConversion /\ cls = NoClassify /\ mrg = NoMerge

\* version_source = _sort_versions_desc(version_source): line 126
SortVersions ==
    /\ vs_out = <<>>
    /\ vs_out' = _sort_versions_desc(vs_in)
    /\ UNCHANGED <<vs_in, but_ver>>

NextVer == SortVersions

SpecVer == InitVer /\ [][NextVer]_vars

(***************************************************************************)
(* xapk: strings are sequences of characters, so that prefix, suffix and   *)
(* substring tests are computed as Python computes them.                    *)
(***************************************************************************)
\* str.startswith
StartsWith(s, p) == Len(s) >= Len(p) /\ SubSeq(s, 1, Len(p)) = p

\* str.endswith
EndsWith(s, p) == Len(s) >= Len(p) /\ SubSeq(s, Len(s) - Len(p) + 1, Len(s)) = p

\* p in s
Contains(s, p) == \E i \in 0..(Len(s) - Len(p)) : SubSeq(s, i + 1, i + Len(p)) = p

LowerChar(c) ==
    CASE c = "A" -> "a"
      [] c = "B" -> "b"
      [] c = "C" -> "c"
      [] c = "E" -> "e"
      [] c = "M" -> "m"
      [] c = "O" -> "o"
      [] c = "S" -> "s"
      [] OTHER -> c

\* str.lower
Lowered(s) == [i \in 1..Len(s) |-> LowerChar(s[i])]

S_base == <<"b", "a", "s", "e">>

S_config_dot == <<"c", "o", "n", "f", "i", "g", ".">>

S_split_config_dot == <<"s", "p", "l", "i", "t", "_", "c", "o", "n", "f", "i", "g", ".">>

\* package identifiers a manifest or a container name gives
PkgComA == <<"c", "o", "m", ".", "a">>

PkgOrgB == <<"o", "r", "g", ".", "b">>

(***************************************************************************)
(* xapk._classify_splits: an archive is named by its position in the list   *)
(* (the paths a glob returns are distinct).                                  *)
(***************************************************************************)
RECURSIVE ClassifyFrom(_, _, _, _, _)
\* the loop over apks, from position i on: lines 99-108
ClassifyFrom(apks, package, i, base_apk, config_apks) ==
    IF i > Len(apks) THEN [base_apk |-> base_apk, config_apks |-> config_apks]
    ELSE LET stem == Lowered(apks[i].stem) IN
         IF stem = S_base \/ stem = package
           THEN ClassifyFrom(apks, package, i + 1, Some(i), config_apks)
         ELSE IF StartsWith(stem, S_config_dot) \/ StartsWith(stem, S_split_config_dot)
           THEN ClassifyFrom(apks, package, i + 1, base_apk, Append(config_apks, i))
         ELSE IF Contains(stem, S_base) /\ base_apk = Nothing
           THEN ClassifyFrom(apks, package, i + 1, Some(i), config_apks)
         ELSE ClassifyFrom(apks, package, i + 1, base_apk, Append(config_apks, i))

\* max(apks, key=lambda p: p.stat().st_size): the first of the largest
LargestApk(apks) ==
    CHOOSE i \in 1..Len(apks) :
        /\ \A j \in 1..Len(apks) : apks[j].size <= apks[i].size
        /\ \A j \in 1..(i - 1) : apks[j].size < apks[i].size

\* [a for a in apks if a != base_apk]
AllBut(apks, base_apk) ==
    LET Keep(i) == i # base_apk
    IN SelectSeq([i \in 1..Len(apks) |-> i], Keep)

_classify_splits(apks, package) ==
    LET looped == ClassifyFrom(apks, package, 1, Nothing, <<>>) IN
    IF looped.base_apk = Nothing
      THEN [base_apk |-> LargestApk(apks), config_apks |-> AllBut(apks, LargestApk(apks))]
      ELSE [base_apk |-> looped.base_apk[1], config_apks |-> looped.config_apks]

(***************************************************************************)
(* _classify_splits on its own, applied to the lists of inner archives a    *)
(* container can hold.                                                       *)
(***************************************************************************)
\* how many inner archives a list holds
MaxApks == 3

Apk(stem, size) == [stem |-> stem, size |-> size]

ApkPool ==
    { Apk(<<"b", "a", "s", "e">>, 4), Apk(<<"B", "a", "s", "e">>, 6), Apk(<<"c", "o", "m", ".", "a">>, 4),
      Apk(<<"c", "o", "n", "f", "i", "g", ".", "a", "r", "m", "6", "4">>, 3), Apk(<<"s", "p", "l", "i", "t", "_", "c", "o", "n", "f", "i", "g", ".", "e", "n">>, 7),
      Apk(<<"b", "a", "s", "e", "-", "m", "a", "s", "t", "e", "r">>, 2),
      Apk(<<"b", "a", "s", "e", "-", "e", "n">>, 1), Apk(<<"f", "e", "a", "t", "u", "r", "e">>, 5), Apk(<<"a", "s", "s", "e", "t", "s">>, 5) }

\* a directory holds each file name once
ApkLists ==
    {l \in UNION {[1..n -> ApkPool] : n \in 2..MaxApks} :
        \A i, j \in 1..Len(l) : l[i] = l[j] => i = j}

ClsPackages == {PkgComA, PkgOrgB}

InitCls ==
    /\ OrchestratorIdle
    /\ vs_in = <<>> /\ vs_out = <<>>
    /\ xfer = NoTransfer
    /\ conv = NoConversion /\ mrg = NoMerge
    /\ \E l \in ApkLists, p \in ClsPackages :
          cls = [NoClassify EXCEPT !.apks = l, !.package = p]

\* base_apk, config_apks = _classify_splits(apks, package)
Classify ==
    /\ cls.pc = "idle"
    /\ cls' = [cls EXCEPT !.pc = "done",
                          !.base_apk = _classify_splits(cls.apks, cls.package).base_apk,
                          !.config_apks = _classify_splits(cls.apks, cls.package).config_apks]
    /\ UNCHANGED but_cls

NextCls == Classify

SpecCls == InitCls /\ [][NextCls]_vars

(***************************************************************************)
(* xapk._merge_splits and _should_store.  An archive is a sequence of       *)
(* entries (name, content, compression method) in the order of its central  *)
(* directory.                                                                *)
(***************************************************************************)
N_manifest == <<"A", "n", "d", "r", "o", "i", "d", "M", "a", "n", "i", "f", "e", "s", "t", ".", "x", "m", "l">>

N_arsc == <<"r", "e", "s", "o", "u", "r", "c", "e", "s", ".", "a", "r", "s", "c">>

N_meta_inf == <<"M", "E", "T", "A", "-", "I", "N", "F", "/">>

N_cert == <<"M", "E", "T", "A", "-", "I", "N", "F", "/", "A">>

N_lib == <<"l", "i", "b", "/">>

N_lib_so == <<"l", "i", "b", "/", "a", ".", "s", "o">>

N_lib_txt == <<"l", "i", "b", "/", "a", ".", "t", "x", "t">>

N_libs_so == <<"l", "i", "b", "s", "/", "a", ".", "s", "o">>

N_so == <<"a", ".", "s", "o">>

N_res == <<"r", "e", "s", "/">>

N_res_arsc == <<"r", "e", "s", "/", "r", "e", "s", "o", "u", "r", "c", "e", "s", ".", "a", "r", "s", "c">>

N_dex == <<"c", "l", "a", "s", "s", "e", "s", ".", "d", "e", "x">>

S_slash == <<"/">>

S_dot_so == <<".", "s", "o">>

ZIP_STORED == "stored"

ZIP_DEFLATED == "deflated"

Entry(name, data, method) == [name |-> name, data |-> data, method |-> method]

\* zf.namelist()
namelist(zf) == [i \in 1..Len(zf.entries) |-> zf.entries[i].name]

\* zf.read(name): of entries with one name the archive's directory keeps the last
ZipRead(zf, name) ==
    LET last == CHOOSE i \in 1..Len(zf.entries) :
                    /\ zf.entries[i].name = name
                    /\ \A j \in (i + 1)..Len(zf.entries) : zf.entries[j].name # name
    IN zf.entries[last].data

\* files[name] = src
Put(files, name, src) ==
    [n \in DOMAIN files \cup {name} |-> IF n = name THEN src ELSE files[n]]

RECURSIVE BaseFilesFrom(_, _, _)
\* the loop over the base's names: lines 135-138
BaseFilesFrom(names, i, files) ==
    IF i > Len(names) THEN files
    ELSE IF StartsWith(names[i], N_meta_inf) THEN BaseFilesFrom(names, i + 1, files)
    ELSE BaseFilesFrom(names, i + 1, Put(files, names[i], 0))

\* a split's entry that is not merged: lines 148-153
Skipped_none(name) == FALSE

Skipped(name) ==
    \/ name \in {N_manifest, N_arsc}
    \/ StartsWith(name, N_meta_inf)
    \/ EndsWith(name, S_slash)

RECURSIVE OverlayFrom_baseWins(_, _, _, _)
OverlayFrom_baseWins(names, i, k, acc) ==
    IF i > Len(names) THEN acc
    ELSE IF Skipped(names[i]) \/ names[i] \in DOMAIN acc.files
      THEN OverlayFrom_baseWins(names, i + 1, k, acc)
    ELSE OverlayFrom_baseWins(names, i + 1, k,
             [files |-> Put(acc.files, names[i], k), added |-> acc.added + 1])

RECURSIVE OverlayFrom(_, _, _, _)
\* the loop over the names of the k-th config split: lines 147-156
OverlayFrom(names, i, k, acc) ==
    IF i > Len(names) THEN acc
    ELSE IF Skipped(names[i]) THEN OverlayFrom(names, i + 1, k, acc)
    ELSE OverlayFrom(names, i + 1, k,
             [files |-> Put(acc.files, names[i], k),
              added |-> IF names[i] \in DOMAIN acc.files THEN acc.added
                        ELSE acc.added + 1])

\* the code point of a character of an entry name
CharCode(c) ==
    CASE c = "-" -> 45
      [] c = "." -> 46
      [] c = "/" -> 47
      [] c = "A" -> 65
      [] c = "E" -> 69
      [] c = "F" -> 70
      [] c = "I" -> 73
      [] c = "M" -> 77
      [] c = "N" -> 78
      [] c = "T" -> 84
      [] c = "a" -> 97
      [] c = "b" -> 98
      [] c = "c" -> 99
      [] c = "d" -> 100
      [] c = "e" -> 101
      [] c = "f" -> 102
      [] c = "i" -> 105
      [] c = "l" -> 108
      [] c = "m" -> 109
      [] c = "n" -> 110
      [] c = "o" -> 111
      [] c = "r" -> 114
      [] c = "s" -> 115
      [] c = "t" -> 116
      [] c = "u" -> 117
      [] c = "x" -> 120

RECURSIVE NameLess(_, _)
\* a < b for str
NameLess(a, b) ==
    IF b = <<>> THEN FALSE
    ELSE IF a = <<>> THEN TRUE
    ELSE IF CharCode(Head(a)) # CharCode(Head(b))
      THEN CharCode(Head(a)) < CharCode(Head(b))
    ELSE NameLess(Tail(a), Tail(b))

RECURSIVE Sorted(_)
\* sorted(files)
Sorted(keys) ==
    IF keys = {} THEN <<>>
    ELSE LET least == CHOOSE x \in keys : \A y \in keys \ {x} : NameLess(x, y)
         IN <<least>> \o Sorted(keys \ {least})

_should_store_all(filename) == TRUE

_should_store(filename) ==
    IF StartsWith(filename, N_lib) /\ EndsWith(filename, S_dot_so) THEN TRUE
    ELSE filename = N_arsc

\* the archive written from files: lines 159-168; source 0 is the base, k the
\* k-th config split
WriteMerged(files, base_apk, config_apks) ==
    LET order == Sorted(DOMAIN files)
        src_zf(arcname) == IF files[arcname] = 0 THEN base_apk
                           ELSE config_apks[files[arcname]]
    IN [entries |->
          [i \in 1..Len(order) |->
              Entry(order[i], ZipRead(src_zf(order[i]), order[i]),
                    IF _should_store(order[i]) THEN ZIP_STORED ELSE ZIP_DEFLATED)]]

RECURSIVE OverlayAll(_, _, _)
\* the loop over config_apks from the k-th on: lines 145-156
OverlayAll(config_apks, k, acc) ==
    IF k > Len(config_apks) THEN acc
    ELSE OverlayAll(config_apks, k + 1, OverlayFrom(namelist(config_apks[k]), 1, k, acc))

_merge_splits(base_apk, config_apks) ==
    LET base_files == BaseFilesFrom(namelist(base_apk), 1, <<>>)
        merged == OverlayAll(config_apks, 1, [files |-> base_files, added |-> 0])
    IN [output |-> WriteMerged(merged.files, base_apk, config_apks),
        added |-> merged.added]

(***************************************************************************)
(* _merge_splits on its own, step by step, applied to a base and a list of  *)
(* config splits.                                                            *)
(***************************************************************************)
\* how many config splits are merged
MaxSplits == 2

Zip(stem, size, entries) == [stem |-> stem, size |-> size, entries |-> entries]

BaseFull ==
    Zip(<<"b", "a", "s", "e">>, 4,
        << Entry(N_manifest, "m0", ZIP_DEFLATED), Entry(N_arsc, "r0", ZIP_DEFLATED),
           Entry(N_cert, "s0", ZIP_DEFLATED), Entry(N_dex, "d0", ZIP_DEFLATED),
           Entry(N_res, "", ZIP_STORED), Entry(N_lib_so, "l0", ZIP_DEFLATED) >>)

BaseTwice ==
    Zip(<<"c", "o", "m", ".", "a">>, 4,
        << Entry(N_manifest, "m1", ZIP_DEFLATED), Entry(N_dex, "d1", ZIP_STORED),
           Entry(N_dex, "e1", ZIP_STORED), Entry(N_lib_txt, "t1", ZIP_STORED) >>)

BaseBare ==
    Zip(<<"b", "a", "s", "e", "-", "m", "a", "s", "t", "e", "r">>, 2,
        << Entry(N_manifest, "m2", ZIP_STORED), Entry(N_arsc, "r2", ZIP_STORED) >>)

SplitAbi ==
    Zip(<<"c", "o", "n", "f", "i", "g", ".", "a", "r", "m", "6", "4">>, 3,
        << Entry(N_manifest, "m3", ZIP_DEFLATED), Entry(N_cert, "s3", ZIP_DEFLATED),
           Entry(N_lib, "", ZIP_STORED), Entry(N_lib_so, "l3", ZIP_STORED) >>)

SplitLang ==
    Zip(<<"s", "p", "l", "i", "t", "_", "c", "o", "n", "f", "i", "g", ".", "e", "n">>, 7,
        << Entry(N_manifest, "m4", ZIP_DEFLATED), Entry(N_arsc, "r4", ZIP_STORED),
           Entry(N_res_arsc, "x4", ZIP_STORED), Entry(N_dex, "d4", ZIP_STORED) >>)

SplitLibs ==
    Zip(<<"f", "e", "a", "t", "u", "r", "e">>, 5,
        << Entry(N_lib_so, "l5", ZIP_DEFLATED), Entry(N_libs_so, "y5", ZIP_STORED),
           Entry(N_so, "z5", ZIP_STORED), Entry(N_lib_txt, "t5", ZIP_STORED) >>)

SplitDex ==
    Zip(<<"a", "s", "s", "e", "t", "s">>, 5,
        << Entry(N_dex, "d6", ZIP_DEFLATED), Entry(N_res, "", ZIP_STORED),
           Entry(N_lib_so, "l6", ZIP_DEFLATED) >>)

BaseApks == {BaseFull, BaseTwice, BaseBare}

SplitApks == {SplitAbi, SplitLang, SplitLibs, SplitDex}

\* the config splits are distinct files
SplitLists ==
    {l \in UNION {[1..n -> SplitApks] : n \in 1..MaxSplits} :
        \A i, j \in 1..Len(l) : l[i] = l[j] => i = j}

InitMrg ==
    /\ OrchestratorIdle
    /\ vs_in = <<>> /\ vs_out = <<>>
    /\ xfer = NoTransfer
    /\ conv = NoConversion /\ cls = NoClassify
    /\ \E b \in BaseApks, l \in SplitLists :
          mrg = [NoMerge EXCEPT !.base_apk = b, !.config_apks = l]

\* the base's entries are collected: lines 131-138
MrgBase ==
    /\ mrg.pc = "idle"
    /\ mrg' = [mrg EXCEPT !.pc = "splits",
                          !.files = BaseFilesFrom(namelist(mrg.base_apk), 1, <<>>),
                          !.added = 0, !.k = 0]
    /\ UNCHANGED but_mrg

\* the next config split is overlaid: lines 145-156
MrgSplit ==
    /\ mrg.pc = "splits" /\ mrg.k < Len(mrg.config_apks)
    /\ LET acc == OverlayFrom(namelist(mrg.config_apks[mrg.k + 1]), 1, mrg.k + 1,
                              [files |-> mrg.files, added |-> mrg.added])
       IN mrg' = [mrg EXCEPT !.k = mrg.k + 1, !.files = acc.files, !.added = acc.added]
    /\ UNCHANGED but_mrg

\* the merged archive is written: lines 159-170
MrgWrite ==
    /\ mrg.pc = "splits" /\ mrg.k = Len(mrg.config_apks)
    /\ mrg' = [mrg EXCEPT !.pc = "done",
                          !.output = WriteMerged(mrg.files, mrg.base_apk, mrg.config_apks)]
    /\ UNCHANGED but_mrg

NextMrg ==
    \/ MrgBase
    \/ MrgSplit
    \/ MrgWrite

SpecMrg == InitMrg /\ [][NextMrg]_vars

(***************************************************************************)
(* xapk.convert_xapk_to_apk and _safe_extractall.  A member name is the     *)
(* sequence of its path components; a component has a stem and a suffix as   *)
(* pathlib splits them.                                                      *)
(***************************************************************************)
Comp(stem, suffix) == [stem |-> stem, suffix |-> suffix]

DotDot == Comp(<<".", ".">>, "")

\* a name that starts with '/'
Root == Comp(<<"/">>, "")

Dir(stem) == Comp(stem, "")

ManifestJson == Comp(<<"m", "a", "n", "i", "f", "e", "s", "t">>, ".json")

NoZip == [stem |-> <<>>, size |-> 0, entries |-> <<>>]

\* manifest.get("package_name", ""), manifest.get("version_name", "")
Manifest(package, version) == [package |-> package, version |-> version]

NoManifest == Manifest(<<>>, <<>>)

\* what a member holds: an inner archive, a manifest json.load accepts, one
\* it rejects, an archive zipfile rejects, or something else
Extracted(kind, apk, manifest) == [kind |-> kind, apk |-> apk, manifest |-> manifest]

Member(name, file) == [name |-> name, file |-> file]

ApkMember(dir, zip) == Member(dir \o <<Comp(zip.stem, ".apk")>>, Extracted("apk", zip, NoManifest))

CorruptApkMember(dir, zip) ==
    Member(dir \o <<Comp(zip.stem, ".apk")>>, Extracted("corrupt", zip, NoManifest))

ManifestMember(package, version) ==
    Member(<<ManifestJson>>, Extracted("manifest", NoZip, Manifest(package, version)))

MalformedManifestMember == Member(<<ManifestJson>>, Extracted("malformed", NoZip, NoManifest))

OtherMember(name) == Member(name, Extracted("other", NoZip, NoManifest))

RECURSIVE InsideFrom(_, _, _)
\* (dest / member).resolve().relative_to(dest) succeeds: lines 17-19
InsideFrom(name, i, depth) ==
    IF i > Len(name) THEN TRUE
    ELSE IF name[i] = Root THEN FALSE
    ELSE IF name[i] = DotDot
      THEN IF depth = 0 THEN FALSE ELSE InsideFrom(name, i + 1, depth - 1)
    ELSE InsideFrom(name, i + 1, depth + 1)

Inside_always(name) == TRUE

Inside(name) == InsideFrom(name, 1, 0)

\* where zf.extractall writes a member: '..' components are dropped
ExtractTarget(name) ==
    LET Kept(c) == c # DotDot /\ c # Root
    IN SelectSeq(name, Kept)

\* the containers converted
XapkStem == <<"c", "o", "m", ".", "a", "-", "1">>

V1 == <<"1">>

Container(entries) == [stem |-> XapkStem, entries |-> entries]

XSingle == Container(<<ManifestMember(PkgComA, V1), ApkMember(<<>>, BaseFull)>>)

XSingleBare == Container(<<ApkMember(<<>>, BaseTwice)>>)

XSingleNested ==
    Container(<<ManifestMember(PkgComA, <<>>), OtherMember(<<Comp(<<"i", "c", "o", "n">>, ".png")>>),
                ApkMember(<<Dir(<<"s", "p", "l", "i", "t", "s">>)>>, BaseFull)>>)

XSingleDotDot ==
    Container(<<ApkMember(<<Dir(<<"s", "p", "l", "i", "t", "s">>), DotDot>>, BaseBare)>>)

XTraversalLast ==
    Container(<<ManifestMember(PkgComA, V1), ApkMember(<<>>, BaseFull),
                OtherMember(<<DotDot, Comp(<<"e", "v", "i", "l">>, ".sh")>>)>>)

XTraversalAbsolute ==
    Container(<<OtherMember(<<Root, Dir(<<"e", "t", "c">>), Comp(<<"x">>, "")>>),
                ApkMember(<<>>, BaseFull)>>)

XTraversalDeep ==
    Container(<<ApkMember(<<>>, BaseFull),
                ApkMember(<<Dir(<<"s", "p", "l", "i", "t", "s">>), DotDot, DotDot>>, SplitAbi),
                ApkMember(<<>>, SplitLang)>>)

XMalformedSingle == Container(<<MalformedManifestMember, ApkMember(<<>>, BaseFull)>>)

XMalformedSplits ==
    Container(<<MalformedManifestMember, ApkMember(<<>>, BaseFull),
                ApkMember(<<>>, SplitAbi)>>)

XNoApk == Container(<<ManifestMember(PkgComA, V1), OtherMember(<<Comp(<<"i", "c", "o", "n">>, ".png")>>)>>)

XSplits ==
    Container(<<ManifestMember(PkgComA, V1), ApkMember(<<>>, BaseFull),
                ApkMember(<<>>, SplitAbi), ApkMember(<<>>, SplitLang)>>)

XTwoBases ==
    Container(<<ManifestMember(PkgComA, V1), ApkMember(<<>>, BaseFull),
                ApkMember(<<>>, BaseTwice)>>)

XCorruptSplit ==
    Container(<<ManifestMember(PkgComA, V1), ApkMember(<<>>, BaseFull),
                CorruptApkMember(<<>>, SplitAbi)>>)

XBareSplits == Container(<<ApkMember(<<>>, SplitLibs), ApkMember(<<>>, SplitDex)>>)

Containers ==
    { XSingle, XSingleBare, XSingleNested, XSingleDotDot, XTraversalLast,
      XTraversalAbsolute, XTraversalDeep, XMalformedSingle, XMalformedSplits, XNoApk,
      XSplits, XTwoBases, XCorruptSplit, XBareSplits }

\* shutil.copy2(apk, out_path)
CopyOf(out_name, apk) ==
    [exists |-> TRUE, name |-> out_name, bytes |-> apk, merged |-> FALSE, signed |-> FALSE]

\* shutil.copy2(merged_path, out_path)
CopyOfMerged(out_name, archive, signed) ==
    [exists |-> TRUE, name |-> out_name,
     bytes |-> [stem |-> <<"m", "e", "r", "g", "e", "d">>, size |-> 0, entries |-> archive.entries],
     merged |-> TRUE, signed |-> signed]

(***************************************************************************)
(* _try_sign: what the machine offers (which tools are found, whether each  *)
(* run of keytool and of a signer succeeds) is the environment's choice.     *)
(***************************************************************************)
\* how a run of keytool or of a signer ends: exit 0, CalledProcessError,
\* TimeoutExpired, FileNotFoundError
RunOutcomes == {"ok", "nonzero", "timeout", "notfound"}

SignEnvs ==
    [apksigner : BOOLEAN, jarsigner : BOOLEAN, keytool : BOOLEAN,
     keygen : [1..2 -> RunOutcomes], apksigner_run : RunOutcomes,
     jarsigner_run : RunOutcomes]

\* _ensure_debug_keystore after `runs` runs of keytool, none of which has
\* left a keystore: lines 255-277
KeystoreAfter(env, runs) ==
    IF ~env.keytool THEN [ks |-> FALSE, runs |-> runs]
    ELSE [ks |-> env.keygen[runs + 1] = "ok", runs |-> runs + 1]

\* the result, with how often each tool was run and whether a keystore was
\* left in the workspace: lines 182-198
_try_sign(env) ==
    LET first == IF env.apksigner THEN KeystoreAfter(env, 0) ELSE [ks |-> FALSE, runs |-> 0]
    IN IF env.apksigner /\ first.ks
         THEN [signed |-> env.apksigner_run = "ok", keytool |-> first.runs,
               apksigner |-> 1, jarsigner |-> 0, ks |-> TRUE]
       ELSE LET second == IF env.jarsigner THEN KeystoreAfter(env, first.runs)
                          ELSE [ks |-> FALSE, runs |-> first.runs]
            IN IF env.jarsigner /\ second.ks
                 THEN [signed |-> env.jarsigner_run = "ok", keytool |-> second.runs,
                       apksigner |-> 0, jarsigner |-> 1, ks |-> TRUE]
               ELSE [signed |-> FALSE, keytool |-> second.runs,
                     apksigner |-> 0, jarsigner |-> 0, ks |-> FALSE]

(***************************************************************************)
(* The conversion, step by step.                                            *)
(***************************************************************************)
\* mutant: the workspace outlives a failed conversion
ConvRaise_keep(c, e) ==
    [c EXCEPT !.pc = "raised", !.exc = e]

\* the private workspace is removed when the with block is left: line 34
ConvRaise(c, e) ==
    [c EXCEPT !.pc = "raised", !.exc = e, !.tmp = <<>>]

ConvReturn(c, out) ==
    [c EXCEPT !.pc = "returned", !.out = out, !.ret = out.name, !.tmp = <<>>]

\* tempfile.TemporaryDirectory(), zipfile.ZipFile(xapk_path): lines 31-37
ConvOpen ==
    /\ conv.pc = "idle"
    /\ conv' = [conv EXCEPT !.pc = "check"]
    /\ UNCHANGED but_conv

\* one turn of the loop of _safe_extractall: lines 16-21
ConvCheck ==
    /\ conv.pc = "check" /\ conv.checked < Len(conv.xapk.entries)
    /\ LET member == conv.xapk.entries[conv.checked + 1].name IN
       IF Inside(member)
         THEN conv' = [conv EXCEPT !.checked = conv.checked + 1]
         ELSE conv' = ConvRaise(conv, "Zip path traversal detected")
    /\ UNCHANGED but_conv

\* zf.extractall(dest), one member at a time: line 22
ConvExtract ==
    /\ conv.pc = "check" /\ conv.checked = Len(conv.xapk.entries)
    /\ conv.extracted < Len(conv.xapk.entries)
    /\ LET member == conv.xapk.entries[conv.extracted + 1] IN
       conv' = [conv EXCEPT !.extracted = conv.extracted + 1,
                            !.tmp = Put(conv.tmp, ExtractTarget(member.name), member.file),
                            !.wrote = conv.wrote \cup {conv.extracted + 1}]
    /\ UNCHANGED but_conv

\* the manifest is read: lines 41-49
ConvManifest ==
    /\ conv.pc = "check" /\ conv.extracted = Len(conv.xapk.entries)
    /\ IF <<ManifestJson>> \in DOMAIN conv.tmp
         THEN IF conv.tmp[<<ManifestJson>>].kind = "manifest"
                THEN conv' = [conv EXCEPT !.pc = "find",
                         !.package = conv.tmp[<<ManifestJson>>].manifest.package,
                         !.version = conv.tmp[<<ManifestJson>>].manifest.version]
                ELSE conv' = ConvRaise(conv, "JSONDecodeError")
         ELSE conv' = [conv EXCEPT !.pc = "find", !.package = conv.xapk.stem,
                                   !.version = <<>>]
    /\ UNCHANGED but_conv

IsApkPath(p) == p # <<>> /\ p[Len(p)].suffix = ".apk"

\* tmp_path.glob("*.apk")
Glob(tmp) == {p \in DOMAIN tmp : Len(p) = 1 /\ IsApkPath(p)}

\* tmp_path.rglob("*.apk")
RGlob(tmp) == {p \in DOMAIN tmp : IsApkPath(p)}

\* the orders in which a directory listing can give the paths
Listings(paths) ==
    {l \in [1..Cardinality(paths) -> paths] : \A i, j \in DOMAIN l : l[i] = l[j] => i = j}

\* f"{package}-{version}.apk" if version else f"{package}.apk": line 58
OutName(package, version) ==
    IF version # <<>> THEN package \o <<"-">> \o version \o <<".", "a", "p", "k">>
    ELSE package \o <<".", "a", "p", "k">>

\* the inner archives are found: lines 52-59
ConvFind ==
    /\ conv.pc = "find"
    /\ LET found == IF Glob(conv.tmp) # {} THEN Glob(conv.tmp) ELSE RGlob(conv.tmp) IN
       IF found = {}
         THEN conv' = ConvRaise(conv, "No APK files found in XAPK")
         ELSE \E l \in Listings(found) :
                conv' = [conv EXCEPT !.pc = "found", !.apks = l,
                                     !.out_name = OutName(conv.package, conv.version)]
    /\ UNCHANGED but_conv

\* the archive at a path of the workspace
ApkAt(c, p) == c.tmp[p].apk

\* len(apks) == 1: lines 62-64
ConvCopySingle ==
    /\ conv.pc = "found" /\ Len(conv.apks) = 1
    /\ conv' = ConvReturn(conv, CopyOf(conv.out_name, ApkAt(conv, conv.apks[1])))
    /\ UNCHANGED but_conv

\* what _classify_splits is given: the paths' stems and the files' sizes
ClassifyArg(c) ==
    [i \in 1..Len(c.apks) |->
        [stem |-> c.apks[i][Len(c.apks[i])].stem, size |-> ApkAt(c, c.apks[i]).size]]

\* base_apk, config_apks = _classify_splits(apks, package): line 67
ConvClassify ==
    /\ conv.pc = "found" /\ Len(conv.apks) > 1
    /\ LET r == _classify_splits(ClassifyArg(conv), conv.package) IN
       conv' = [conv EXCEPT !.pc = "classified",
                            !.base_apk = conv.apks[r.base_apk],
                            !.config_apks = [k \in 1..Len(r.config_apks) |->
                                                conv.apks[r.config_apks[k]]],
                            !.steps = Append(conv.steps, "classify")]
    /\ UNCHANGED but_conv

\* not config_apks: lines 69-71
ConvCopyBase ==
    /\ conv.pc = "classified" /\ conv.config_apks = <<>>
    /\ conv' = ConvReturn(conv, CopyOf(conv.out_name, ApkAt(conv, conv.base_apk)))
    /\ UNCHANGED but_conv

MergedApk == <<Comp(<<"m", "e", "r", "g", "e", "d">>, ".apk")>>

DebugKeystore == <<Comp(<<"d", "e", "b", "u", "g">>, ".keystore")>>

\* zipfile.ZipFile(apk, "r") accepts the archive
Readable(c, p) == c.tmp[p].kind = "apk"

\* stats = _merge_splits(base_apk, config_apks, merged_path): lines 77-79
ConvMerge ==
    /\ conv.pc = "classified" /\ conv.config_apks # <<>>
    /\ IF Readable(conv, conv.base_apk)
          /\ \A k \in 1..Len(conv.config_apks) : Readable(conv, conv.config_apks[k])
         THEN LET output == _merge_splits(ApkAt(conv, conv.base_apk),
                                 [k \in 1..Len(conv.config_apks) |->
                                     ApkAt(conv, conv.config_apks[k])]).output
              IN conv' = [conv EXCEPT !.pc = "merged", !.merged = output,
                            !.tmp = Put(conv.tmp, MergedApk,
                                        Extracted("apk",
                                            [stem |-> MergedApk[1].stem, size |-> 0,
                                             entries |-> output.entries],
                                            NoManifest)),
                            !.steps = Append(conv.steps, "merge")]
         ELSE conv' = ConvRaise([conv EXCEPT !.steps = Append(conv.steps, "merge")],
                                "BadZipFile")
    /\ UNCHANGED but_conv

\* the conversion after the signing step: lines 82-86
AfterSign_fatal(c, env) ==
    IF _try_sign(env).signed
      THEN [c EXCEPT !.pc = "signed", !.env = env, !.signing = _try_sign(env),
                     !.steps = Append(c.steps, "sign")]
      ELSE [c EXCEPT !.pc = "raised", !.exc = "CalledProcessError", !.tmp = <<>>,
                     !.env = env, !.signing = _try_sign(env),
                     !.steps = Append(c.steps, "sign")]

AfterSign(c, env) ==
    [c EXCEPT !.pc = "signed", !.env = env, !.signing = _try_sign(env),
              !.warned = ~_try_sign(env).signed,
              !.tmp = IF _try_sign(env).ks
                        THEN Put(c.tmp, DebugKeystore,
                                 Extracted("keystore", NoZip, NoManifest))
                        ELSE c.tmp,
              !.steps = Append(c.steps, "sign")]

\* signed = _try_sign(merged_path, tmp_path): lines 82-86
ConvSign ==
    /\ conv.pc = "merged"
    /\ \E env \in SignEnvs : conv' = AfterSign(conv, env)
    /\ UNCHANGED but_conv

\* shutil.copy2(merged_path, out_path): lines 88-89
ConvCopyMerged ==
    /\ conv.pc = "signed"
    /\ conv' = ConvReturn(conv, CopyOfMerged(conv.out_name, conv.merged, conv.signing.signed))
    /\ UNCHANGED but_conv

InitXapk ==
    /\ OrchestratorIdle
    /\ vs_in = <<>> /\ vs_out = <<>>
    /\ xfer = NoTransfer
    /\ cls = NoClassify /\ mrg = NoMerge
    /\ \E x \in Containers : conv = [NoConversion EXCEPT !.xapk = x]

NextXapk ==
    \/ ConvOpen
    \/ ConvCheck
    \/ ConvExtract
    \/ ConvManifest
    \/ ConvFind
    \/ ConvCopySingle
    \/ ConvClassify
    \/ ConvCopyBase
    \/ ConvMerge
    \/ ConvSign
    \/ ConvCopyMerged

SpecXapk == InitXapk /\ [][NextXapk]_vars

(***************************************************************************)
(* Claims about download.                                                  *)
(***************************************************************************)
IsDownload == call.op = "download"

IsFallback == ~Given(call.source)

IsPinned == Given(call.source)

\* positions of the adapter calls that returned a value
OkCalls == {k \in 1..Len(calls) : calls[k].ok}

FirstOkCall == CHOOSE k \in OkCalls : \A j \in OkCalls : k <= j

\* the calls made so far went to the configured adapters, in priority order,
\* one call each
CallsFollowPriority ==
    /\ Len(calls) <= Len(source_names)
    /\ \A k \in 1..Len(calls) : calls[k].src = source_names[k]

\* C1: download without a source tries the adapters one at a time in priority
\* order, each at most once, and returns the artifact of the first adapter
\* whose download succeeds, raising no error, however many adapters failed
\* before it.
C1_ReturnsFirstSuccessfulDownload ==
    (IsDownload /\ IsFallback) =>
        /\ CallsFollowPriority
        /\ OkCalls # {} =>
              /\ pc = "returned"
              /\ ret.kind = "DownloadResult"
              /\ ret.source = calls[FirstOkCall].src
              /\ ret.package = calls[FirstOkCall].out.package
              /\ ret.version = calls[FirstOkCall].out.version

\* the message recorded for the k-th attempt: the adapter's own exception, or
\* the exception of the conversion of that adapter's artifact
AttemptMsg(k) ==
    IF ~calls[k].ok
    THEN Str(calls[k].err)
    ELSE LET cc == CHOOSE c \in Range(conv_calls) : c.src = calls[k].src
         IN  Str(cc.err)

\* C2: when every configured adapter fails, download without a source raises
\* one aggregate error whose (adapter, message) list has exactly one entry per
\* configured adapter, in priority order, each with that adapter's message.
C2_AggregateListsEveryFailure ==
    (IsDownload /\ IsFallback /\ pc = "raised") =>
        /\ exc.type = "RuntimeError"
        /\ exc.msg[1] = "All sources failed for"
        /\ Len(calls) = Len(source_names)
        /\ Len(exc.msg[3]) = Len(source_names)
        /\ \A k \in 1..Len(source_names) :
              exc.msg[3][k] = <<source_names[k], AttemptMsg(k)>>

C2_Witness ==
    /\ IsDownload /\ IsFallback /\ pc = "raised"
    /\ Len(source_names) >= 2
    /\ exc.msg[3][1][2][2] = "HTTP 503"
    /\ exc.msg[3][2][2][2] = "not found"

\* C3: download without a source stops on the first success: once an adapter's
\* download call has returned an artifact no later adapter's download is
\* invoked, also when the conversion of that artifact fails.
C3_NoCallAfterFirstSuccess ==
    (IsDownload /\ IsFallback) =>
        \A k \in OkCalls : k = Len(calls)

\* C4: download with a source invokes only that adapter and instantiates no
\* other; a failure reaches the caller as raised, not as an aggregate; a
\* source that is not configured fails before any adapter is invoked.
C4_PinnedDownloadDelegates ==
    [][(pc = "idle" /\ call'.op = "download" /\ Given(call'.source)) =>
          LET source == call'.source[1]
          IN  /\ pc' \in {"returned", "raised"}
              /\ source_instances' \subseteq source_instances \cup {source}
              /\ \A k \in 1..Len(calls') : calls'[k].src = source
              /\ Len(calls') <= 1
              /\ source \notin Range(source_names) =>
                    /\ calls' = <<>> /\ conv_calls' = <<>>
                    /\ pc' = "raised" /\ exc'.type = "ValueError"
                    /\ source_instances' = source_instances
              /\ (Len(calls') = 1 /\ ~calls'[1].ok) =>
                    pc' = "raised" /\ exc' = calls'[1].err
              /\ (pc' = "raised" /\ Len(calls') = 1 /\ calls'[1].ok) =>
                    /\ Len(conv_calls') = 1
                    /\ exc' = conv_calls'[1].err
              /\ pc' = "returned" => Len(calls') = 1 /\ calls'[1].ok
    ]_vars

C4_Witness ==
    /\ IsDownload /\ IsPinned /\ pc = "raised"
    /\ Len(calls) = 1 /\ ~calls[1].ok
    /\ Len(source_names) >= 2
    /\ source_instances = {call.source[1]}

\* suffixes of split packages, in the spellings adapters deliver
SplitSuffixes == {".xapk", ".apks", ".XAPK", ".APKS"}

\* the artifact the adapter handed to the conversion step of a returned download
AdapterArtifact == calls[Len(calls)].out

ConvCallsFor(a) == {k \in 1..Len(conv_calls) : conv_calls[k].src = a.source}

RECURSIVE OkOutputsFrom(_)
OkOutputsFrom(k) ==
    IF k > Len(calls) THEN <<>>
    ELSE (IF calls[k].ok THEN calls[k].out.val ELSE <<>>) \o OkOutputsFrom(k + 1)

SamePair(a, b) == a.package = b.package /\ a.source = b.source

\* the entries of `all` from position i on that no earlier entry of `all`
\* shares its (package, source) pair with
RECURSIVE FirstOfPairFrom(_, _)
FirstOfPairFrom(all, i) ==
    IF i > Len(all) THEN <<>>
    ELSE (IF \E j \in 1..(i - 1) : SamePair(all[j], all[i]) THEN <<>> ELSE <<all[i]>>)
         \o FirstOfPairFrom(all, i + 1)

\* C6: aggregate search returns the concatenation, in priority order, of what
\* the adapters that did not fail returned, an entry being dropped exactly
\* when an earlier one has the same (package, source) pair; a failing adapter
\* adds nothing and every configured adapter is still queried.
C6_SearchConcatDedup ==
    (call.op = "search" /\ IsFallback) =>
        /\ CallsFollowPriority
        /\ pc # "raised"
        /\ pc = "returned" =>
              /\ Len(calls) = Len(source_names)
              /\ ret.kind = "list"
              /\ ret.val = FirstOfPairFrom(OkOutputsFrom(1), 1)

C6_Witness ==
    /\ call.op = "search" /\ IsFallback /\ pc = "returned"
    /\ \E a, b, c \in 1..Len(calls) :
          /\ a < b /\ b < c
          /\ calls[a].ok /\ ~calls[b].ok /\ calls[c].ok
          /\ \E i, j \in 1..Len(ret.val) :
                /\ i < j
                /\ ret.val[i].package = ret.val[j].package
                /\ ret.val[i].source = calls[a].src
                /\ ret.val[j].source = calls[c].src
    /\ Len(ret.val) < Len(OkOutputsFrom(1))

\* positions of the get_info calls that returned a descriptor
NonEmptyInfo == {k \in 1..Len(calls) : calls[k].ok /\ calls[k].out.kind = "AppInfo"}

\* C8: aggregate info probes the adapters in priority order and returns the
\* descriptor of the first adapter that returns one; adapters that fail or
\* return nothing are skipped; no adapter is queried after that one; when no
\* adapter returns a descriptor the result is None.
C8_InfoFirstNonEmpty ==
    (call.op = "info" /\ IsFallback) =>
        /\ CallsFollowPriority
        /\ pc # "raised"
        /\ \A k \in NonEmptyInfo :
              k = Len(calls) /\ pc = "returned" /\ ret = calls[k].out
        /\ (pc = "returned" /\ NonEmptyInfo = {}) =>
              ret.kind = "None" /\ Len(calls) = Len(source_names)

C8_Witness ==
    /\ call.op = "info" /\ IsFallback /\ pc = "returned"
    /\ Len(calls) = 3
    /\ ~calls[1].ok
    /\ calls[2].ok /\ calls[2].out.kind = "None"
    /\ ret.kind = "AppInfo" /\ ret.val.source = source_names[3]

(***************************************************************************)
(* Claims about list_all_versions and the Version Resolver.                *)
(***************************************************************************)
\* the (version, source, date) reports of the adapters that did not fail, in
\* call order and each adapter's own order
RECURSIVE ReportedFrom(_)
ReportedFrom(k) ==
    IF k > Len(calls) THEN <<>>
    ELSE (IF calls[k].ok
          THEN [i \in 1..Len(calls[k].out.val) |->
                   [ver |-> calls[k].out.val[i][1], src |-> calls[k].src,
                    date |-> calls[k].out.val[i][2]]]
          ELSE <<>>)
         \o ReportedFrom(k + 1)

Reported == ReportedFrom(1)

ReportedVersions == {Reported[i].ver : i \in 1..Len(Reported)}

FirstReport(ver) ==
    Reported[CHOOSE i \in 1..Len(Reported) :
                 /\ Reported[i].ver = ver
                 /\ \A j \in 1..(i - 1) : Reported[j].ver # ver]

Completed == pc \in {"returned", "raised"}

\* C9: list_all_versions returns a mapping whose keys are exactly the versions
\* reported by the queried adapters that did not fail, each mapped to the
\* (source, date) of its first report in priority order, and it raises exactly
\* when no version was reported.
C9_VersionsUnionFirstWins ==
    (call.op = "list_all_versions" /\ Completed) =>
        /\ IsFallback => CallsFollowPriority /\ Len(calls) = Len(source_names)
        /\ pc = "raised" <=> ReportedVersions = {}
        /\ pc = "returned" =>
              /\ ret.kind = "dict"
              /\ {ret.val[i].ver : i \in 1..Len(ret.val)} = ReportedVersions
              /\ Len(ret.val) = Cardinality(ReportedVersions)
              /\ \A i \in 1..Len(ret.val) : ret.val[i] = FirstReport(ret.val[i].ver)

C9_Witness ==
    /\ call.op = "list_all_versions" /\ IsFallback /\ pc = "returned"
    /\ \E k \in 1..Len(calls) : ~calls[k].ok
    /\ \E i, j \in 1..Len(Reported) :
          /\ i < j
          /\ Reported[i].ver = Reported[j].ver
          /\ Reported[i].src # Reported[j].src
          /\ Reported[i].date # Reported[j].date
          /\ \E n \in 1..Len(ret.val) : ret.val[n] = Reported[i]

\* the order of two tokens: integers by value, an integer below a non-integer,
\* non-integers as strings
TokenLess(a, b) ==
    IF IsInt(a) /\ IsInt(b) THEN IntVal(a) < IntVal(b)
    ELSE IF IsInt(a) THEN TRUE
    ELSE IF IsInt(b) THEN FALSE
    ELSE StrLess(a, b)

\* the lexicographic order of two token tuples, a proper prefix being smaller
RECURSIVE TokensLess(_, _)
TokensLess(s, t) ==
    IF t = <<>> THEN FALSE
    ELSE IF s = <<>> THEN TRUE
    ELSE IF TokenLess(Head(s), Head(t)) THEN TRUE
    ELSE IF TokenLess(Head(t), Head(s)) THEN FALSE
    ELSE TokensLess(Tail(s), Tail(t))

VersionsOf(version_source) == [i \in 1..Len(version_source) |-> version_source[i].ver]

\* C10: the sorted mapping iterates newest first: of two consecutive versions
\* the later one's token tuple is never greater than the earlier one's, with
\* integer tokens compared by value and an integer token below a non-integer
\* one; 2.9.9, 2.10.1, 2.2 sorts to 2.10.1, 2.9.9, 2.2; sorting neither drops
\* nor duplicates an entry.
C10_NewestFirst ==
    vs_out # <<>> =>
        /\ \A i \in 1..(Len(vs_out) - 1) :
              ~TokensLess(Split(vs_out[i].ver), Split(vs_out[i + 1].ver))
        /\ Len(vs_out) = Len(vs_in)
        /\ Range(vs_out) = Range(vs_in)
        /\ VersionsOf(vs_in) = <<V2_9_9, V2_10_1, V2_2>> =>
              VersionsOf(vs_out) = <<V2_10_1, V2_9_9, V2_2>>

C10_Witness ==
    /\ VersionsOf(vs_in) = <<V2_2, V2_2_1, V2_2_b>>
    /\ VersionsOf(vs_out) = <<V2_2_b, V2_2_1, V2_2>>

(***************************************************************************)
(* Claims about partial and total failure.                                 *)
(***************************************************************************)
\* the k-th adapter's attempt of a fallback download ended in a recorded error
AttemptFailed(k) == \E i \in 1..Len(errors) : errors[i][1] = calls[k].src

\* an alternative of the call in progress yielded a result
DownloadAlternativeOk == \E k \in OkCalls : ~AttemptFailed(k)

VersionsAlternativeOk == \E k \in OkCalls : calls[k].out.val # <<>>

BatchAlternativeOk == \E i \in 1..Len(attempts) : attempts[i].ok

\* the call returned an empty list or None
EmptyResult ==
    /\ pc = "returned"
    /\ IF call.op = "info" THEN ret.kind = "None" ELSE ret.val = <<>>

QueryOps == {"search", "info", "developer_apps"}

\* C7 (as stated): every aggregate operation returns normally when at least
\* one alternative succeeds and raises when every alternative fails, search,
\* info and developer_apps included.
C7_TotalFailureIsFatal ==
    (Completed /\ IsFallback) =>
        /\ call.op = "download" => (pc = "returned" <=> DownloadAlternativeOk)
        /\ call.op = "list_all_versions" => (pc = "returned" <=> VersionsAlternativeOk)
        /\ call.op \in {"download_versions", "download_developer"} =>
              (pc = "returned" <=> BatchAlternativeOk)
        /\ (call.op \in QueryOps /\ calls # <<>>) =>
              (pc = "returned" <=> OkCalls # {})

\* C7 (amended): total failure is fatal for download, list_all_versions,
\* download_versions and download_developer, which return exactly when an
\* alternative yielded a result (an adapter whose download and conversion
\* succeeded, an adapter that reported a version, an entry whose download
\* succeeded) and raise otherwise; aggregate search, info and developer_apps
\* never raise, and return an empty list or None when every adapter failed.
C7_TotalFailureFatalForDownloads ==
    (Completed /\ IsFallback) =>
        /\ call.op = "download" => (pc = "returned" <=> DownloadAlternativeOk)
        /\ call.op = "list_all_versions" => (pc = "returned" <=> VersionsAlternativeOk)
        /\ call.op \in {"download_versions", "download_developer"} =>
              (pc = "returned" <=> BatchAlternativeOk)
        /\ call.op \in QueryOps =>
              /\ pc = "returned"
              /\ Len(calls) = Len(source_names) \/ (call.op = "info" /\ ~EmptyResult)
              /\ OkCalls = {} => EmptyResult

C7_Witness ==
    /\ call.op = "developer_apps" /\ IsFallback
    /\ EmptyResult
    /\ Len(calls) >= 2
    /\ OkCalls = {}
    /\ \E k \in 1..Len(calls) : calls[k].err.type = "AttributeError"
    /\ \E k \in 1..Len(calls) : calls[k].err.type = "RuntimeError"

(***************************************************************************)
(* Claims about the batch operations.                                      *)
(***************************************************************************)
\* positions of the batch downloads that succeeded
OkAttempts == {i \in 1..Len(attempts) : attempts[i].ok}

\* how many of the first i batch downloads succeeded
OkAttemptsUpTo(i) == Cardinality({j \in OkAttempts : j <= i})

\* positions of the batch downloads whose pinned source is configured: those
\* reach an adapter
ReachingAttempts ==
    {i \in 1..Len(attempts) : attempts[i].source[1] \in Range(source_names)}

ReachingUpTo(i) == Cardinality({j \in ReachingAttempts : j <= i})

\* the adapter downloads invoked so far, in order
DownloadCalls == SelectSeq(calls, LAMBDA c : c.method = "download")

\* every adapter download so far belongs to one batch download, is the only
\* one of that download, and went to the source and version that download was
\* pinned to
CallsArePinned ==
    /\ Len(DownloadCalls) = Cardinality(ReachingAttempts)
    /\ \A i \in ReachingAttempts :
          LET c == DownloadCalls[ReachingUpTo(i)]
          IN  /\ c.method = "download"
              /\ c.src = attempts[i].source[1]
              /\ c.ok => c.out.package = attempts[i].package
              /\ (c.ok /\ attempts[i].version # Nothing) =>
                    c.out.version = attempts[i].version[1]
              /\ attempts[i].ok => c.ok

\* the results list holds the artifacts of the successful batch downloads, in
\* order, and the failures are counted
ResultsAreSuccesses ==
    /\ Len(results) = Cardinality(OkAttempts)
    /\ Len(results) + failed = Len(attempts)
    /\ \A i \in OkAttempts :
          LET r == results[OkAttemptsUpTo(i)]
          IN  /\ r.package = attempts[i].package
              /\ r.source = attempts[i].source[1]
              /\ attempts[i].version # Nothing => r.version = attempts[i].version[1]

\* C11: download_versions attempts every entry of the mapping once, in mapping
\* order, by a download pinned to the entry's source and version and never by
\* another adapter; a failed entry does not stop the later ones; the returned
\* list holds exactly the successful artifacts in order; the call raises
\* exactly when no entry succeeded, an empty mapping included.
C11_EveryEntryOncePinned ==
    call.op = "download_versions" =>
        /\ Len(attempts) <= Len(version_map)
        /\ \A i \in 1..Len(attempts) :
              /\ attempts[i].package = Package
              /\ attempts[i].source = Some(version_map[i].src)
              /\ attempts[i].version = Some(version_map[i].ver)
        /\ CallsArePinned
        /\ ResultsAreSuccesses
        /\ Completed =>
              /\ Len(attempts) = Len(version_map)
              /\ pc = "raised" <=> OkAttempts = {}
              /\ pc = "returned" => ret.val = results

C11_Witness ==
    /\ call.op = "download_versions" /\ pc = "returned"
    /\ Len(version_map) = 2
    /\ ~attempts[1].ok /\ attempts[2].ok
    /\ Len(calls) = 2 /\ ~calls[1].ok
    /\ failed = 1 /\ Len(ret.val) = 1
    /\ ret.val[1].version = version_map[2].ver

\* the listing calls of download_developer, in order
ListingCalls == SelectSeq(calls, LAMBDA c : c.method = "list_developer_apps")

\* what the listing adapters that did not fail returned, concatenated
RECURSIVE ListedFrom(_)
ListedFrom(k) ==
    IF k > Len(ListingCalls) THEN <<>>
    ELSE (IF ListingCalls[k].ok THEN ListingCalls[k].out.val ELSE <<>>)
         \o ListedFrom(k + 1)

\* the entries of `all` from position i on whose package no earlier entry has
RECURSIVE FirstOfPackageFrom(_, _)
FirstOfPackageFrom(all, i) ==
    IF i > Len(all) THEN <<>>
    ELSE (IF \E j \in 1..(i - 1) : all[j].package = all[i].package
          THEN <<>> ELSE <<all[i]>>)
         \o FirstOfPackageFrom(all, i + 1)

\* the app list developer_apps hands to download_developer
AggregatedApps ==
    IF IsPinned THEN ListedFrom(1) ELSE FirstOfPackageFrom(ListedFrom(1), 1)

InDownloadPhase == pc = "download_developer" \/ attempts # <<>>

Complete == xfer.total = 0 \/ xfer.downloaded >= xfer.total

\* C13: a transfer never writes the final path itself; the file there changes
\* only by the rename, performed after the stream ended with at least the
\* declared content length received; a stream that ends short raises the
\* incomplete-download error and leaves at the final path what was there before.
C13_FinalPathOnlyByRename ==
    /\ [][xfer'.path # xfer.path =>
            /\ xfer.pc = "rename" /\ xfer'.pc = "returned"
            /\ xfer'.path = xfer.part_path
            /\ xfer'.path.by = xfer.n /\ xfer'.path.size = xfer.downloaded
            /\ Complete]_vars
    /\ [](xfer.pc \in {"rename", "returned"} => Complete)
    /\ [](xfer.pc \in {"open", "streaming", "rename", "raised"} =>
             xfer.path = xfer.path0)
    /\ []((xfer.pc = "raised" /\ xfer.exc = "Incomplete download") =>
             /\ ~Complete
             /\ xfer.path.by # xfer.n)

C13_Witness ==
    /\ xfer.pc = "raised" /\ xfer.exc = "Incomplete download"
    /\ xfer.n = 2
    /\ xfer.downloaded > 0
    /\ xfer.path.exists /\ xfer.path.by = 1

\* C14: when download_file has returned or raised, whatever the exit, the
\* '.part' file does not exist; it exists only while the transfer is in
\* progress.
C14_NoPartFileAfterExit ==
    /\ xfer.pc \in {"idle", "returned", "raised"} => ~xfer.part_path.exists
    /\ xfer.part_path.exists => xfer.pc \in {"streaming", "rename"}

C14_Witness ==
    /\ xfer.pc = "raised" /\ xfer.exc = "KeyboardInterrupt"
    /\ xfer.downloaded > 0
    /\ ~xfer.part_path.exists

(***************************************************************************)
(* Claims about _classify_splits.                                          *)
(***************************************************************************)
\* how often the archive at position i is among the config splits
TimesInConfig(i) ==
    Cardinality({k \in 1..Len(cls.config_apks) : cls.config_apks[k] = i})

\* C18: for every list of two or more inner archives and every package
\* identifier, _classify_splits returns one base that is a member of the
\* input and a config-split list in which every other input archive appears
\* exactly once and the base does not appear: no archive is dropped or
\* counted twice.
C18_ClassificationIsPartition ==
    cls.pc = "done" =>
        /\ cls.base_apk \in 1..Len(cls.apks)
        /\ \A k \in 1..Len(cls.config_apks) : cls.config_apks[k] \in 1..Len(cls.apks)
        /\ \A i \in 1..Len(cls.apks) :
              TimesInConfig(i) = (IF i = cls.base_apk THEN 0 ELSE 1)

(***************************************************************************)
(* Claims about convert_xapk_to_apk.                                       *)
(***************************************************************************)
\* among the first n components of a name, how many are '..'
Ups(name, n) == Cardinality({k \in 1..n : name[k] = DotDot})

\* a member name that leads out of the extraction root: it is absolute, or at
\* some point it has climbed more often than it has descended
Escapes(name) ==
    \E n \in 1..Len(name) : name[n] = Root \/ Ups(name, n) > n - Ups(name, n)

HasTraversal(xapk) == \E i \in 1..Len(xapk.entries) : Escapes(xapk.entries[i].name)

\* C15: when some entry of the container leads outside the extraction root,
\* the conversion never gets past the checks: it can only raise the
\* path-traversal error, no entry (the offending one or a safe one before
\* it) is ever extracted and no output is produced; in every conversion the
\* first entry is extracted only after all entries were checked, and the
\* path-traversal error is raised for such containers only.
C15_TraversalAbortsBeforeAnyWrite ==
    /\ HasTraversal(conv.xapk) =>
          /\ conv.pc \in {"idle", "check", "raised"}
          /\ conv.pc = "raised" => conv.exc = "Zip path traversal detected"
          /\ conv.wrote = {} /\ conv.tmp = <<>> /\ conv.extracted = 0
          /\ ~conv.out.exists
    /\ conv.wrote # {} => conv.checked = Len(conv.xapk.entries)
    /\ conv.exc = "Zip path traversal detected" => HasTraversal(conv.xapk)

C15_Witness ==
    /\ conv.xapk = XTraversalLast
    /\ conv.pc = "raised" /\ conv.exc = "Zip path traversal detected"
    /\ conv.checked = 2
    /\ conv.wrote = {} /\ ~conv.out.exists

\* the members of a container that are inner package archives
InnerArchives(xapk) ==
    {i \in 1..Len(xapk.entries) : IsApkPath(xapk.entries[i].name)}

ExactlyOneInner(xapk) == Cardinality(InnerArchives(xapk)) = 1

TheInner(xapk) == xapk.entries[CHOOSE i \in InnerArchives(xapk) : TRUE].file.apk

Completed_conv == conv.pc \in {"returned", "raised"}

MalformedManifest(xapk) ==
    \E i \in 1..Len(xapk.entries) :
        /\ xapk.entries[i].name = <<ManifestJson>>
        /\ xapk.entries[i].file.kind = "malformed"

\* C16: the conversion of a container that holds exactly one inner archive
\* (and no entry escaping the root) ends by returning an output whose bytes
\* are that archive's bytes, and neither classification nor merge nor signing
\* was performed.
C16_SinglePassthrough ==
    (ExactlyOneInner(conv.xapk) /\ ~HasTraversal(conv.xapk)) =>
        /\ conv.steps = <<>>
        /\ Completed_conv =>
              /\ conv.pc = "returned"
              /\ conv.out.exists /\ ~conv.out.merged /\ ~conv.out.signed
              /\ conv.out.bytes = TheInner(conv.xapk)

\* the same, for containers whose manifest, if present, can be parsed
C16_PassthroughWhenManifestReadable ==
    MalformedManifest(conv.xapk) \/ C16_SinglePassthrough

C16_PassthroughReached ==
    /\ conv.xapk = XSingleNested
    /\ conv.pc = "returned" /\ conv.out.bytes = BaseFull

\* C17: a manifest that is present but cannot be parsed does not end the
\* conversion: no error is raised for it, and the conversion goes on with
\* the defaults it uses when the manifest is absent (the package identifier
\* is the container's base filename, the version is empty).
C17_MalformedManifestNonFatal ==
    MalformedManifest(conv.xapk) =>
        /\ conv.exc # "JSONDecodeError"
        /\ conv.pc \notin {"idle", "check", "raised"} =>
              /\ conv.package = conv.xapk.stem
              /\ conv.version = <<>>

(***************************************************************************)
(* Claims about _merge_splits.                                             *)
(***************************************************************************)
NamesOf(zip) == {zip.entries[i].name : i \in 1..Len(zip.entries)}

\* the base contributes everything but the signature directory
BaseEligible(zip) == {n \in NamesOf(zip) : ~StartsWith(n, N_meta_inf)}

\* a config split contributes everything but the manifest, the resource
\* table, the signature directory and directory-only entries
SplitEligible(zip) ==
    {n \in NamesOf(zip) :
        /\ n # N_manifest /\ n # N_arsc
        /\ ~StartsWith(n, N_meta_inf)
        /\ n[Len(n)] # "/"}

\* the config splits, by position, that contribute a path
SplitsWith(name) ==
    {k \in 1..Len(mrg.config_apks) : name \in SplitEligible(mrg.config_apks[k])}

\* the last config split, in processing order, that contributes a path
LastSplitWith(name) ==
    CHOOSE k \in SplitsWith(name) : \A j \in SplitsWith(name) : j <= k

MergedNames == {mrg.output.entries[i].name : i \in 1..Len(mrg.output.entries)}

\* C19: the merged archive holds each path once; its paths are the base's
\* eligible paths together with the config splits' eligible paths; a path no
\* config split contributes has the base's content, and a path contributed
\* by config splits has the content of the last of them in processing order.
C19_MergeOverlay ==
    mrg.pc = "done" =>
        /\ \A i, j \in 1..Len(mrg.output.entries) :
              mrg.output.entries[i].name = mrg.output.entries[j].name => i = j
        /\ MergedNames =
              BaseEligible(mrg.base_apk)
                 \cup UNION {SplitEligible(mrg.config_apks[k]) :
                               k \in 1..Len(mrg.config_apks)}
        /\ \A i \in 1..Len(mrg.output.entries) :
              LET e == mrg.output.entries[i] IN
              IF SplitsWith(e.name) = {}
                THEN e.data = ZipRead(mrg.base_apk, e.name)
                ELSE e.data = ZipRead(mrg.config_apks[LastSplitWith(e.name)], e.name)

\* base {manifest, lib/a.so, classes.dex, ...} with two splits that both
\* hold lib/a.so: the later split's library, the base's manifest
C19_Witness ==
    /\ mrg.pc = "done"
    /\ mrg.base_apk = BaseFull /\ mrg.config_apks = <<SplitAbi, SplitDex>>
    /\ \E i \in 1..Len(mrg.output.entries) :
          mrg.output.entries[i].name = N_lib_so /\ mrg.output.entries[i].data = "l6"
    /\ \E i \in 1..Len(mrg.output.entries) :
          mrg.output.entries[i].name = N_manifest /\ mrg.output.entries[i].data = "m0"
    /\ \E i \in 1..Len(mrg.output.entries) :
          mrg.output.entries[i].name = N_dex /\ mrg.output.entries[i].data = "d6"

\* the entries that are the resource table or a shared library under lib/
MemoryMapped(name) ==
    \/ name = N_arsc
    \/ /\ Len(name) >= 4 /\ SubSeq(name, 1, 4) = N_lib
       /\ Len(name) >= 3 /\ SubSeq(name, Len(name) - 2, Len(name)) = S_dot_so

\* the method with which the inputs hold a path
InputMethods(name) ==
    LET inputs == {mrg.base_apk} \cup {mrg.config_apks[k] : k \in 1..Len(mrg.config_apks)}
        MethodsIn(z) == {z.entries[i].method :
                            i \in {j \in 1..Len(z.entries) : z.entries[j].name = name}}
    IN UNION {MethodsIn(z) : z \in inputs}

\* C20: in the merged archive an entry is stored uncompressed exactly when it
\* is resources.arsc or lies under lib/ and ends with .so; every other entry
\* is deflated, however the inputs stored it.
C20_CompressionPolicy ==
    mrg.pc = "done" =>
        \A i \in 1..Len(mrg.output.entries) :
            LET e == mrg.output.entries[i] IN
            /\ e.method \in {ZIP_STORED, ZIP_DEFLATED}
            /\ e.method = ZIP_STORED <=> MemoryMapped(e.name)

\* a library the inputs held deflated comes out stored, and entries the
\* inputs held stored (a library outside lib/, a text file under lib/) come
\* out deflated
C20_Witness ==
    /\ mrg.pc = "done"
    /\ mrg.base_apk = BaseFull /\ mrg.config_apks = <<SplitLibs>>
    /\ \E i \in 1..Len(mrg.output.entries) :
          /\ mrg.output.entries[i].name = N_lib_so
          /\ mrg.output.entries[i].method = ZIP_STORED
          /\ InputMethods(N_lib_so) = {ZIP_DEFLATED}
    /\ \E i \in 1..Len(mrg.output.entries) :
          /\ mrg.output.entries[i].name = N_libs_so
          /\ mrg.output.entries[i].method = ZIP_DEFLATED
          /\ InputMethods(N_libs_so) = {ZIP_STORED}
    /\ \E i \in 1..Len(mrg.output.entries) :
          /\ mrg.output.entries[i].name = N_arsc
          /\ mrg.output.entries[i].method = ZIP_STORED

(***************************************************************************)
(* Claims about signing.                                                    *)
(***************************************************************************)
SignAttempted == \E k \in 1..Len(conv.steps) : conv.steps[k] = "sign"

C22_SigningAlternatives ==
    SignAttempted =>
        /\ conv.signing.apksigner <= 1 /\ conv.signing.jarsigner <= 1
        /\ (conv.signing.apksigner = 1 /\ conv.env.apksigner_run # "ok"
               /\ conv.env.jarsigner) => conv.signing.jarsigner = 1
        /\ ~conv.signing.signed =>
              /\ conv.env.apksigner => (conv.signing.apksigner = 1 \/ ~conv.signing.ks)
              /\ conv.env.jarsigner => (conv.signing.jarsigner = 1 \/ ~conv.signing.ks)

\* C25: in one conversion keytool is run at most once, whether or not it
\* produces a keystore; the keystore is a file of the conversion's workspace
\* and does not exist any more once the conversion has returned or raised.
C25_EphemeralKeystore ==
    /\ conv.signing.keytool <= 1
    /\ conv.signing.ks => conv.signing.keytool >= 1
    /\ (conv.pc = "signed" /\ conv.signing.ks) => DebugKeystore \in DOMAIN conv.tmp
    /\ Completed_conv => DebugKeystore \notin DOMAIN conv.tmp

(***************************************************************************)
(* Base selection ties.                                                     *)
(***************************************************************************)
StemAt(i) == Lowered(cls.apks[i].stem)

\* the archives named "base" or as the package
ExactBases == {i \in 1..Len(cls.apks) : StemAt(i) = S_base \/ StemAt(i) = cls.package}

\* the archives whose name contains "base" and is not a config split's
NamedBases ==
    {i \in 1..Len(cls.apks) :
        /\ Contains(StemAt(i), S_base)
        /\ ~StartsWith(StemAt(i), S_config_dot)
        /\ ~StartsWith(StemAt(i), S_split_config_dot)}

\* the archives of the largest size
LargestApks ==
    {i \in 1..Len(cls.apks) : \A j \in 1..Len(cls.apks) : cls.apks[j].size <= cls.apks[i].size}

First(positions) == CHOOSE i \in positions : \A j \in positions : i <= j

\* several names containing "base" and none exact: the first is the base
C23_FirstNamedBaseWins ==
    (cls.pc = "done" /\ ExactBases = {} /\ Cardinality(NamedBases) > 1) =>
        cls.base_apk = First(NamedBases)

\* no base by name and several archives of the largest size: the first is
\* the base
C23_FirstLargestWins ==
    (cls.pc = "done" /\ ExactBases = {} /\ NamedBases = {}
        /\ Cardinality(LargestApks) > 1) =>
        cls.base_apk = First(LargestApks)

\* C23: when several archives qualify as base (several exact names, or
\* several names containing "base", or several archives of the largest size
\* in the size fallback) the first of them in discovery order is the base.
C23_FirstMatchWins ==
    /\ (cls.pc = "done" /\ Cardinality(ExactBases) > 1) =>
          cls.base_apk = First(ExactBases)
    /\ C23_FirstNamedBaseWins
    /\ C23_FirstLargestWins

(***************************************************************************)
(* Merge exclusions.                                                        *)
(***************************************************************************)
\* C24: the merged archive holds no entry under META-INF/; its
\* AndroidManifest.xml and resources.arsc, when present, are the base's with
\* the base's content, whatever the config splits hold under these names;
\* a directory entry is in the merged archive only if the base holds it.
C24_MergeExclusions ==
    mrg.pc = "done" =>
        \A i \in 1..Len(mrg.output.entries) :
            LET e == mrg.output.entries[i] IN
            /\ ~(Len(e.name) >= Len(N_meta_inf)
                    /\ SubSeq(e.name, 1, Len(N_meta_inf)) = N_meta_inf)
            /\ e.name \in {N_manifest, N_arsc} =>
                  /\ e.name \in NamesOf(mrg.base_apk)
                  /\ e.data = ZipRead(mrg.base_apk, e.name)
            /\ e.name[Len(e.name)] = "/" =>
                  /\ e.name \in NamesOf(mrg.base_apk)
                  /\ e.data = ZipRead(mrg.base_apk, e.name)

\* the splits hold a manifest, a resource table, a certificate and a
\* directory entry of their own; the merged archive has the base's manifest
\* and resource table and neither the certificate nor the directory
C24_Witness ==
    /\ mrg.pc = "done"
    /\ mrg.base_apk = BaseFull /\ mrg.config_apks = <<SplitAbi, SplitLang>>
    /\ N_arsc \in NamesOf(SplitLang) /\ N_cert \in NamesOf(SplitAbi)
    /\ N_lib \in NamesOf(SplitAbi)
    /\ \E i \in 1..Len(mrg.output.entries) :
          mrg.output.entries[i].name = N_arsc /\ mrg.output.entries[i].data = "r0"
    /\ \E i \in 1..Len(mrg.output.entries) :
          mrg.output.entries[i].name = N_manifest /\ mrg.output.entries[i].data = "m0"
    /\ N_lib \notin MergedNames /\ N_cert \notin MergedNames

(***************************************************************************)
(* Claims about the orchestrator's state.                                   *)
(***************************************************************************)
\* C26: whatever operations were called and however they ended, the
\* configured adapter list (contents and order) and the auto-convert toggle
\* are those of construction; the instantiated adapters are among the
\* configured ones, one per name, and an instance once made is kept.
C26_StateFixedAtConstruction ==
    /\ [](source_names = names0 /\ auto_convert_xapk = auto0)
    /\ [](source_instances \subseteq Range(source_names))
    /\ [][source_instances \subseteq source_instances']_vars

\* a pinned call with an unknown source has failed after an earlier call
\* instantiated some, not all, of the configured adapters
C26_Witness ==
    /\ pc = "raised" /\ exc.type = "ValueError"
    /\ source_instances # {} /\ source_instances # Range(source_names)
    /\ Len(source_names) > 1

(***************************************************************************)
(* Completeness of a transfer.                                              *)
(***************************************************************************)
\* C27: the incomplete-download error is raised only when a positive
\* declared length exceeds the bytes received; a stream that ends with no
\* (or a zero) declared length, after any number of bytes, or with at least
\* the declared length, more included, goes on to the rename, and a
\* returned transfer has put its bytes at the final path and returns their
\* count.
C27_CompletenessOnlyAgainstDeclaredLength ==
    /\ [](xfer.exc = "Incomplete download" =>
             (xfer.total > 0 /\ xfer.downloaded < xfer.total))
    /\ [][(xfer.pc = "streaming" /\ xfer'.pc \notin {"streaming", "rename"}
              /\ (xfer.total = 0 \/ xfer.downloaded >= xfer.total)) =>
             xfer'.exc \in {"ConnectionError", "OSError", "KeyboardInterrupt"}]_vars
    /\ [](xfer.pc = "returned" =>
             /\ xfer.ret = xfer.downloaded
             /\ xfer.path.exists /\ xfer.path.by = xfer.n
             /\ xfer.path.size = xfer.downloaded)

\* a first transfer with no declared length ended after zero bytes and was
\* put at the final path; a second one received more than declared and
\* returned
C27_Witness ==
    /\ xfer.n = 2 /\ xfer.pc = "returned"
    /\ xfer.path0.exists /\ xfer.path0.by = 1 /\ xfer.path0.size = 0
    /\ xfer.total > 0 /\ xfer.downloaded > xfer.total
    /\ xfer.ret = xfer.downloaded

(***************************************************************************)
(* The container and the conversion step of a download.                    *)
(***************************************************************************)
\* the step has run the Assembler
Converted == Len(conv_calls') = Len(conv_calls) + 1

LastConv == conv_calls'[Len(conv_calls')]

\* C28: in a download, a file of the download directory disappears only in
\* a step in which the Assembler returned successfully for it; when the
\* Assembler raises, the container it was given is still at its path as the
\* adapter delivered it, and the error leaves the step: with a pinned
\* source the call raises it, in fallback mode it is recorded under the
\* adapter that delivered the container.
C28_ContainerKeptOnFailedConversion ==
    [][call'.op = "download" =>
          /\ \A p \in DOMAIN fs :
                (fs[p].exists /\ ~fs'[p].exists) =>
                    (Converted /\ LastConv.ok /\ LastConv.path = p)
          /\ (Converted /\ ~LastConv.ok) =>
                /\ fs'[LastConv.path].exists
                /\ fs'[LastConv.path].bytes = DeliveredBytes(LastConv.path.suffix)
                /\ calls'[Len(calls')].ok
                /\ calls'[Len(calls')].src = LastConv.src
                /\ IF Given(call'.source)
                     THEN pc' = "raised" /\ exc' = LastConv.err
                     ELSE /\ pc' = "download"
                          /\ errors' = Append(errors, <<LastConv.src, Str(LastConv.err)>>)]_vars

\* fallback mode: the first adapter's container could not be converted and
\* is still there, with the error recorded under that adapter
C28_Witness ==
    /\ call.op = "download" /\ ~Given(call.source) /\ pc = "download"
    /\ Len(conv_calls) = 1 /\ ~conv_calls[1].ok
    /\ fs[conv_calls[1].path].exists
    /\ errors = <<(<<conv_calls[1].src, Str(conv_calls[1].err)>>)>>

(***************************************************************************)
(* The output path and the workspace of a conversion.                      *)
(***************************************************************************)
StructuralErrors ==
    {"Zip path traversal detected", "No APK files found in XAPK", "JSONDecodeError",
     "BadZipFile"}

\* C29: the file at the output path changes only in a copy step that ends
\* the conversion by returning; a conversion that raised (path traversal, no
\* inner archive, unreadable manifest, failure while merging) has left the
\* output path as it was; and when the conversion has returned or raised,
\* nothing of the workspace (extracted entries, merged archive, keystore) is
\* left.
C29_OutputOnlyByFinalCopy ==
    /\ [][conv'.out # conv.out =>
             /\ conv.pc \in {"found", "classified", "signed"}
             /\ conv'.pc = "returned"]_vars
    /\ [](conv.pc = "raised" =>
             /\ conv.exc \in StructuralErrors
             /\ ~conv.out.exists)
    /\ [](Completed_conv => conv.tmp = <<>>)
    /\ [][(conv'.pc \in {"returned", "raised"} /\ conv.pc \notin {"returned", "raised"}
              /\ conv.wrote # {}) => conv.tmp # <<>>]_vars

\* the merge failed on an unreadable split after the container was
\* extracted: no output, nothing left of the workspace
C29_Witness ==
    /\ conv.pc = "raised" /\ conv.exc = "BadZipFile"
    /\ conv.wrote # {} /\ conv.extracted = Len(conv.xapk.entries)
    /\ conv.tmp = <<>> /\ ~conv.out.exists


\* the packages of a list of apps
PackagesOf(apps) == {apps[i].package : i \in 1..Len(apps)}

\* no package occurs twice in a list of apps
DistinctPackages(apps) ==
    \A i, j \in 1..Len(apps) : apps[i].package = apps[j].package => i = j

\* the positions of the listing calls that returned a list holding package p
ListersOf(p) ==
    {k \in 1..Len(ListingCalls) :
        ListingCalls[k].ok /\ p \in PackagesOf(ListingCalls[k].out.val)}

\* the adapter that listed package p first, in the order the adapters were asked
FirstLister(p) ==
    ListingCalls[CHOOSE k \in ListersOf(p) : \A m \in ListersOf(p) : k <= m].src

\* every app of the list is the entry of the adapter that listed its package first
FromFirstLister(apps) ==
    \A i \in 1..Len(apps) :
        /\ ListersOf(apps[i].package) # {}
        /\ apps[i].source = FirstLister(apps[i].package)

\* C30: the aggregate developer listing asks every configured adapter in
\* priority order, skips the ones that fail, keeps one entry per package (that
\* of the first adapter that listed it) and returns the list, empty when every
\* adapter failed, without raising; download_developer then downloads each
\* package at most once and only from the adapter that listed it first.
C30_OnePerPackageFromFirstLister ==
    (call.op \in {"developer_apps", "download_developer"} /\ IsFallback) =>
        /\ \A k \in 1..Len(ListingCalls) : ListingCalls[k].src = source_names[k]
        /\ pc = "developer_apps" =>
              /\ Len(ListingCalls) = idx - 1
              /\ DistinctPackages(results)
              /\ seen_pkgs = PackagesOf(results)
              /\ PackagesOf(results) = PackagesOf(ListedFrom(1))
              /\ FromFirstLister(results)
        /\ (call.op = "developer_apps" /\ Completed) =>
              /\ pc = "returned"
              /\ Len(ListingCalls) = Len(source_names)
              /\ DistinctPackages(ret.val)
              /\ PackagesOf(ret.val) = PackagesOf(ListedFrom(1))
              /\ FromFirstLister(ret.val)
              /\ (\A k \in 1..Len(ListingCalls) : ~ListingCalls[k].ok) => ret.val = <<>>
        /\ (call.op = "download_developer" /\ InDownloadPhase) =>
              /\ DistinctPackages(dev_apps)
              /\ FromFirstLister(dev_apps)
              /\ DistinctPackages(attempts)
              /\ \A i \in 1..Len(attempts) :
                    attempts[i].source = Some(FirstLister(attempts[i].package))
              /\ Len(DownloadCalls) = Len(attempts)
              /\ \A k \in 1..Len(DownloadCalls) :
                    DownloadCalls[k].src = FirstLister(attempts[k].package)

\* the first and the third adapter both listed the same package, the second
\* does not support developer listing and was skipped, and the one download
\* of the package went to the first adapter
C30_Witness ==
    /\ call.op = "download_developer" /\ IsFallback /\ Completed
    /\ Len(ListingCalls) = 3
    /\ ~ListingCalls[2].ok /\ ListingCalls[2].err.type = "AttributeError"
    /\ ListersOf(Package) = {1, 3}
    /\ Len(dev_apps) = 1 /\ dev_apps[1].source = source_names[1]
    /\ Len(attempts) = 1 /\ attempts[1].ok
    /\ Len(DownloadCalls) = 1 /\ DownloadCalls[1].src = source_names[1]

====
